---- MODULE Spec2Model ----
(***************************************************************************)
(* Model of the Turnstile local solving server (modules/turnstile_server), *)
(* of the sitekey validator (modules/sitekey_validator), of the solving    *)
(* strategies (modules/turnstile_solver, main) and of the widget clicker   *)
(* (scripts/cf_test).                                                      *)
(*                                                                         *)
(* Python strings that the code inspects character by character (sitekeys, *)
(* urls) are sequences of one-character strings; strings the code only     *)
(* stores or compares as a whole (tokens, session ids, messages) are TLA+  *)
(* strings.  Python None is the value PyNone.                              *)
(***************************************************************************)
EXTENDS Integers, Sequences, FiniteSets, TLC

VARIABLES
    sessions,    \* TurnstileRequestHandler.sessions: session id -> session record
    uuidCalls,   \* number of values uuid.uuid4() has returned so far
    now,         \* the value time.time() returns
    request,     \* the request the server handled last
    response,    \* the response it sent to that request
    sitekey,     \* validator: the string handed to validate_sitekey
    result,      \* validator: what validate_sitekey did with it
    solving,     \* solver: the run of attempt_capsolver_turnstile_solve and of main after it
    tester,      \* cf_test: the page's widgets and the run of TurnstileTester.test_url
    poll,        \* solver: the run of attempt_server_turnstile_solve on the main thread
    post,        \* server thread: the POST /token whose assignments are under way
    detector,    \* cf_test: a call of one of the detector's pure methods
    cleanup      \* main thread: the run of cleanup_old_sessions

vars == <<sessions, uuidCalls, now, request, response, sitekey, result,
          solving, tester, poll, post, detector, cleanup>>
serverVars == <<sessions, uuidCalls, now, request, response>>
validatorVars == <<sitekey, result>>
clientVars == <<solving, tester, poll, post, detector, cleanup>>

\* ---------------------------------------------------------------- bounds

\* /solve requests accepted in a run (values uuid4 is asked for)
MaxSessions == 2
\* the clock stops at this value
MaxTime == 1

\* ------------------------------------------------------- string helpers

PyNone == "None"

Rep(c, n) == [i \in 1..n |-> c]

\* str.startswith(p)
StartsWith(s, p) == Len(s) >= Len(p) /\ SubSeq(s, 1, Len(p)) = p

\* p occurs in s at position i
OccursAt(s, p, i) == i >= 1 /\ i + Len(p) - 1 <= Len(s) /\ SubSeq(s, i, i + Len(p) - 1) = p

\* `p in s` for strings
Contains(s, p) == \E i \in 1..(Len(s) + 1) : OccursAt(s, p, i)

\* str.replace(old, new): every non-overlapping occurrence, left to right
RECURSIVE Replace(_, _, _)
Replace(s, old, new) ==
    IF s = <<>> THEN <<>>
    ELSE IF OccursAt(s, old, 1) THEN new \o Replace(SubSeq(s, Len(old) + 1, Len(s)), old, new)
    ELSE <<Head(s)>> \o Replace(Tail(s), old, new)

Letters == {"a", "b", "c", "d", "e", "f", "g", "h", "i", "j", "k", "l", "m", "n", "o", "p",
            "q", "r", "s", "t", "u", "v", "w", "x", "y", "z",
            "A", "B", "C", "D", "E", "F", "G", "H", "I", "J", "K", "L", "M", "N", "O", "P",
            "Q", "R", "S", "T", "U", "V", "W", "X", "Y", "Z"}
Digits == {"0", "1", "2", "3", "4", "5", "6", "7", "8", "9"}

\* ------------------------------------------------------------- urlparse

\* urllib.parse.urlsplit: the text after a leading "scheme:"
UrlAfterScheme(url) ==
    LET colons == {i \in 1..Len(url) : url[i] = ":"}
    IN  IF colons = {} THEN url
        ELSE LET i == CHOOSE k \in colons : \A j \in colons : k <= j
             IN  IF i > 1 /\ url[1] \in Letters
                    /\ \A j \in 1..(i - 1) : url[j] \in Letters \cup Digits \cup {"+", "-", "."}
                 THEN SubSeq(url, i + 1, Len(url))
                 ELSE url

\* urlsplit's netloc: after "//", up to the first of "/", "?", "#"
UrlNetloc(url) ==
    LET rest == UrlAfterScheme(url)
    IN  IF ~StartsWith(rest, <<"/", "/">>) THEN <<>>
        ELSE LET body == SubSeq(rest, 3, Len(rest))
                 stops == {i \in 1..Len(body) : body[i] \in {"/", "?", "#"}}
                 end == IF stops = {} THEN Len(body)
                        ELSE (CHOOSE k \in stops : \A j \in stops : k <= j) - 1
             IN  SubSeq(body, 1, end)

\* urlparse(url) raises ValueError("Invalid IPv6 URL") on a netloc with one
\* bracket and not the other.  (A netloc with both brackets is checked
\* further by urlsplit; no url of this model has both.)
UrlparseRaises(url) ==
    LET netloc == UrlNetloc(url)
        open == \E i \in 1..Len(netloc) : netloc[i] = "["
        close == \E i \in 1..Len(netloc) : netloc[i] = "]"
    IN  (open /\ ~close) \/ (close /\ ~open)

\* ------------------------------------------------- server: request inputs

DemoKey1 == <<"1", "x", "0", "0", "0", "0", "0", "0", "0", "0", "0", "0", "0", "0", "0", "0", "0", "0", "0", "0", "0", "0", "A", "A">>
DemoKey2 == <<"2", "x", "0", "0", "0", "0", "0", "0", "0", "0", "0", "0", "0", "0", "0", "0", "0", "0", "0", "0", "0", "0", "A", "B">>
DemoKey3 == <<"3", "x", "0", "0", "0", "0", "0", "0", "0", "0", "0", "0", "0", "0", "0", "0", "0", "0", "0", "0", "0", "0", "F", "F">>
Placeholder4A == <<"0", "x", "4", "A", "A", "A", "A", "A", "A", "A">>
PlaceholderYourSiteKey == <<"Y", "O", "U", "R", "_", "S", "I", "T", "E", "_", "K", "E", "Y">>

\* the list invalid_sitekeys of _serve_solve_page
invalid_sitekeys == {DemoKey1, DemoKey2, DemoKey3, Placeholder4A, PlaceholderYourSiteKey}

\* "1xABCDEF1234567890ABCDEF1234567890", the key of the spec's example (34 characters)
KeyExample == <<"1", "x", "A", "B", "C", "D", "E", "F", "1", "2", "3", "4", "5", "6", "7", "8", "9", "0", "A", "B", "C", "D", "E", "F", "1", "2", "3", "4", "5", "6", "7", "8", "9", "0">>
\* long enough, wrong prefix
KeyBadPrefix == <<"9", "x", "0", "0", "0", "0", "0", "0", "0", "0", "0", "0", "0", "0", "0", "0", "0", "0", "0", "0", "0", "0", "A", "A">>
\* the text the page template reserves for the session id
SessionIdPlaceholder == <<"{", "{", "S", "E", "S", "S", "I", "O", "N", "_", "I", "D", "}", "}">>
\* a key of valid format, exactly 20 characters long, that contains that
\* text: "1x{{SESSION_ID}}0000"; and the same key cut to 19 characters
Key20 == <<"1", "x">> \o SessionIdPlaceholder \o Rep("0", 4)
Key19 == SubSeq(Key20, 1, Len(Key20) - 1)

UrlGood == <<"h", "t", "t", "p", "s", ":", "/", "/", "x", ".", "t", "e", "s", "t">>
UrlOther == <<"h", "t", "t", "p", "s", ":", "/", "/", "y", ".", "t", "e", "s", "t", "/", "l", "o", "g", "i", "n">>
\* "http://[x": urlparse raises ValueError on it
UrlUnbalanced == <<"h", "t", "t", "p", ":", "/", "/", "[", "x">>
ActionLogin == <<"l", "o", "g", "i", "n">>
CdataSome == <<"c", "d", "7">>

Query(k, u, a, c) == [sitekey |-> k, url |-> u, action |-> a, cdata |-> c]

\* query strings of GET /solve that fail a validation (parse_qs gives '' for
\* a missing or blank parameter)
RejectedQueries ==
    {Query(k, u, <<>>, <<>>) :
        k \in {<<>>, DemoKey1, Placeholder4A, KeyBadPrefix, Key19},
        u \in {<<>>, UrlGood}}
    \cup {Query(KeyExample, <<>>, ActionLogin, <<>>)}

\* query strings that pass every validation
AcceptedQueries ==
    {Query(KeyExample, UrlGood, <<>>, <<>>),
     Query(Key20, UrlOther, ActionLogin, CdataSome),
     Query(KeyExample, UrlUnbalanced, <<>>, <<>>)}

SolveQueries == RejectedQueries \cup AcceptedQueries

\* str(uuid.uuid4()): the n-th call returns a value no earlier call returned
UuidPool == <<"uuid-1", "uuid-2", "uuid-3", "uuid-4", "uuid-5">>
Uuid4(n) == UuidPool[n]
SessionIds == {Uuid4(n) : n \in 1..MaxSessions}

\* JSON values of the "token" member: two strings, and null (or no member)
StringTokens == {"tok-A", "tok-B"}
TokenValues == StringTokens \cup {PyNone}
\* token[:20] raises TypeError on None
Sliceable(token) == token \in StringTokens

\* bodies of POST /token
TokenBodies ==
    {[body |-> "object", sessionId |-> s, token |-> t] :
        s \in SessionIds \cup {PyNone}, t \in TokenValues}
    \cup {[body |-> b, sessionId |-> PyNone, token |-> PyNone] : b \in {"invalid_json", "non_object"}}

\* ------------------------------------------------------ server: responses

NoRequest ==
    [kind |-> "none", sitekey |-> <<>>, url |-> <<>>, action |-> <<>>, cdata |-> <<>>,
     body |-> "", sessionId |-> PyNone, token |-> PyNone, max_age_seconds |-> -1]
SolveRequest(q) ==
    [NoRequest EXCEPT !.kind = "solve", !.sitekey = q.sitekey, !.url = q.url,
                      !.action = q.action, !.cdata = q.cdata]
TokenRequest(b) ==
    [NoRequest EXCEPT !.kind = "token", !.body = b.body, !.sessionId = b.sessionId,
                      !.token = b.token]
CleanupCall(max_age_seconds) ==
    [NoRequest EXCEPT !.kind = "cleanup", !.max_age_seconds = max_age_seconds]

NoResponse ==
    [status |-> 0, type |-> "none", error |-> "", data_sitekey |-> <<>>,
     session_id |-> PyNone, success |-> FALSE]

\* _send_error: a JSON object with "error" and "status"
SendError(code, message) == [NoResponse EXCEPT !.status = code, !.type = "json", !.error = message]

\* _send_json_response({'success': True, 'message': 'Token received'})
SendAck == [NoResponse EXCEPT !.status = 200, !.type = "json", !.success = TRUE]

\* the solving page: the widget's data-sitekey attribute is written into the
\* template first, then every {{SESSION_ID}} of the page is replaced by the id
SolvePage(k, sid) ==
    [NoResponse EXCEPT !.status = 200, !.type = "html",
                       !.data_sitekey = Replace(k, SessionIdPlaceholder, <<sid>>),
                       !.session_id = sid]

\* ------------------------------------------------------ server: handlers

\* (mutant) the url is checked before the format of the sitekey
SolveValidationErrorUrlFirst(k, u) ==
    IF k = <<>> THEN "Missing required parameter: sitekey"
    ELSE IF k \in invalid_sitekeys THEN "Invalid sitekey - Demo/Test key not supported"
    ELSE IF u = <<>> THEN "Missing URL parameter"
    ELSE IF ~(Len(k) >= 20 /\ (StartsWith(k, <<"1", "x">>) \/ StartsWith(k, <<"0", "x">>)))
         THEN "Invalid sitekey format"
    ELSE ""

\* the validations of _serve_solve_page, in the order of the code: the
\* message of the first one that fails, "" when all pass
SolveValidationError(k, u) ==
    IF k = <<>> THEN "Missing required parameter: sitekey"
    ELSE IF k \in invalid_sitekeys THEN "Invalid sitekey - Demo/Test key not supported"
    ELSE IF ~(Len(k) >= 20 /\ (StartsWith(k, <<"1", "x">>) \/ StartsWith(k, <<"0", "x">>)))
         THEN "Invalid sitekey format"
    ELSE IF u = <<>> THEN "Missing URL parameter"
    ELSE ""

\* session_data of _serve_solve_page; completed_at = -1: the key is not set
NewSession(sid, q, t) ==
    [id |-> sid, sitekey |-> q.sitekey, url |-> q.url, action |-> q.action,
     cdata |-> q.cdata, created_at |-> t, status |-> "waiting", token |-> PyNone,
     attempts |-> 0, completed_at |-> -1]

\* (mutant) the status is left as it was
StoreTokenKeepsStatus(session, token, t) ==
    [session EXCEPT !.token = token, !.completed_at = t]

\* (mutant) the status follows the token: a null token puts it back to waiting
StoreTokenStatusByToken(session, token, t) ==
    [session EXCEPT !.token = token,
                    !.status = IF token = PyNone THEN "waiting" ELSE "completed",
                    !.completed_at = t]

\* the three assignments of _handle_token_submission
StoreToken(session, token, t) ==
    [session EXCEPT !.token = token, !.status = "completed", !.completed_at = t]

\* self.sessions[session_id] = session_data
PutSession(table, sid, session) ==
    [s \in DOMAIN table \cup {sid} |-> IF s = sid THEN session ELSE table[s]]

\* GET /solve: do_GET -> _serve_solve_page.  The session is stored before
\* urlparse(url) runs; an exception raised there is caught by do_GET, which
\* answers 500 with str(e).
ServeSolvePage(q) ==
    LET err == SolveValidationError(q.sitekey, q.url)
        sid == Uuid4(uuidCalls + 1)
    IN  /\ request' = SolveRequest(q)
        /\ IF err # ""
           THEN /\ response' = SendError(400, err)
                /\ UNCHANGED <<sessions, uuidCalls>>
           ELSE /\ uuidCalls < MaxSessions
                /\ uuidCalls' = uuidCalls + 1
                /\ sessions' = PutSession(sessions, sid, NewSession(sid, q, now))
                /\ response' = IF UrlparseRaises(q.url)
                               THEN SendError(500, "Invalid IPv6 URL")
                               ELSE SolvePage(q.sitekey, sid)
        /\ UNCHANGED <<now, validatorVars>>

\* POST /token: do_POST -> _handle_token_submission.  json.loads failing is
\* answered 400; a body that is JSON but no object has no .get (AttributeError,
\* caught by do_POST: 500); token[:20] in the log line runs after the three
\* assignments and raises TypeError on a token that cannot be sliced (500).
HandleTokenSubmission(b) ==
    /\ request' = TokenRequest(b)
    /\ IF b.body = "invalid_json"
       THEN /\ response' = SendError(400, "Invalid JSON data")
            /\ UNCHANGED sessions
       ELSE IF b.body = "non_object"
       THEN /\ response' = SendError(500, "object has no attribute 'get'")
            /\ UNCHANGED sessions
       ELSE IF b.sessionId \in DOMAIN sessions
       THEN /\ sessions' = [sessions EXCEPT
                               ![b.sessionId] = StoreToken(sessions[b.sessionId], b.token, now)]
            /\ response' = IF Sliceable(b.token)
                           THEN SendAck
                           ELSE SendError(500, "object is not subscriptable")
       ELSE /\ response' = SendError(404, "Session not found")
            /\ UNCHANGED sessions
    /\ UNCHANGED <<uuidCalls, now, validatorVars>>

\* the ages cleanup_old_sessions is called with
MaxAges == {0, 1}

\* (mutant) a session whose age equals max_age_seconds is removed as well
RetainedYounger(table, t, max_age_seconds) ==
    {s \in DOMAIN table : ~(t - table[s].created_at >= max_age_seconds)}

\* the sessions cleanup_old_sessions keeps
Retained(table, t, max_age_seconds) ==
    {s \in DOMAIN table : ~(t - table[s].created_at > max_age_seconds)}

\* TurnstileServer.cleanup_old_sessions(max_age_seconds), run to completion
CleanupOldSessions(max_age_seconds) ==
    /\ sessions' = [s \in Retained(sessions, now, max_age_seconds) |-> sessions[s]]
    /\ request' = CleanupCall(max_age_seconds)
    /\ response' = NoResponse
    /\ UNCHANGED <<uuidCalls, now, validatorVars>>

\* time passes between two operations
Tick ==
    /\ now < MaxTime
    /\ now' = now + 1
    /\ request' = NoRequest
    /\ response' = NoResponse
    /\ UNCHANGED <<sessions, uuidCalls, validatorVars>>

\* ------------------------------------------------ validator: characters

LowerCase == <<"a", "b", "c", "d", "e", "f", "g", "h", "i", "j", "k", "l", "m", "n", "o", "p",
               "q", "r", "s", "t", "u", "v", "w", "x", "y", "z">>
UpperCase == <<"A", "B", "C", "D", "E", "F", "G", "H", "I", "J", "K", "L", "M", "N", "O", "P",
               "Q", "R", "S", "T", "U", "V", "W", "X", "Y", "Z">>

\* str.upper() of one ASCII character
Upper(c) ==
    IF \E i \in 1..Len(LowerCase) : LowerCase[i] = c
    THEN UpperCase[CHOOSE i \in 1..Len(LowerCase) : LowerCase[i] = c]
    ELSE c

\* str.upper()
UpperStr(s) == [i \in 1..Len(s) |-> Upper(s[i])]

\* two characters equal under re.IGNORECASE
EqIC(a, b) == Upper(a) = Upper(b)

\* the text t at the start of s, under re.IGNORECASE
StartsWithIC(s, t) == StartsWith(UpperStr(s), UpperStr(t))

\* the character class [0-9A-Fa-f]
HexChars == Digits \cup {"a", "b", "c", "d", "e", "f", "A", "B", "C", "D", "E", "F"}
AllIn(s, chars) == \A i \in 1..Len(s) : s[i] \in chars

\* what str.strip() removes (the ASCII part)
Whitespace == {" ", "\t", "\n", "\r", "\f"}

RECURSIVE Strip(_)
Strip(s) ==
    IF s = <<>> THEN s
    ELSE IF s[1] \in Whitespace THEN Strip(Tail(s))
    ELSE IF s[Len(s)] \in Whitespace THEN Strip(SubSeq(s, 1, Len(s) - 1))
    ELSE s

\* digits of int(.., 16): hexadecimal digits, single underscores between them
HexDigitsWithUnderscores(d) ==
    /\ d # <<>>
    /\ AllIn(d, HexChars \cup {"_"})
    /\ d[1] # "_"
    /\ d[Len(d)] # "_"
    /\ \A i \in 1..(Len(d) - 1) : ~(d[i] = "_" /\ d[i + 1] = "_")

\* int(s, 16) returns (it raises ValueError otherwise): surrounding
\* whitespace, a sign, a 0x prefix (which one underscore may follow), digits
IntBase16Parses(s) ==
    LET t == Strip(s)
        u == IF t # <<>> /\ t[1] \in {"+", "-"} THEN Tail(t) ELSE t
        v == IF StartsWithIC(u, <<"0", "x">>)
             THEN LET w == SubSeq(u, 3, Len(u))
                  IN  IF w # <<>> /\ w[1] = "_" THEN Tail(w) ELSE w
             ELSE u
    IN  HexDigitsWithUnderscores(v)

\* ------------------------------------------- validator: class constants

\* the keys of DEMO_SITEKEYS
DEMO_SITEKEYS == {DemoKey1, DemoKey2, DemoKey3}

\* INVALID_PATTERNS, in the order of the list
INVALID_PATTERNS ==
    <<[text |-> <<"0", "x", "4", "A", "A", "A", "A", "A", "A", "A">>, name |-> "0x4AAAAAAA"],
      [text |-> <<"Y", "O", "U", "R", "_", "S", "I", "T", "E", "_", "K", "E", "Y">>, name |-> "YOUR_SITE_KEY"],
      [text |-> <<"P", "L", "A", "C", "E", "H", "O", "L", "D", "E", "R">>, name |-> "PLACEHOLDER"],
      [text |-> <<"E", "X", "A", "M", "P", "L", "E">>, name |-> "EXAMPLE"],
      [text |-> <<"T", "E", "S", "T", "_", "K", "E", "Y">>, name |-> "TEST_KEY"],
      [text |-> <<"D", "E", "M", "O">>, name |-> "DEMO"],
      [text |-> <<"F", "A", "K", "E">>, name |-> "FAKE"],
      [text |-> <<"N", "U", "L", "L">>, name |-> "NULL"],
      [text |-> <<"U", "N", "D", "E", "F", "I", "N", "E", "D">>, name |-> "UNDEFINED"]>>

\* ------------------------------------- validator: INVALID_REGEX_PATTERNS
\* Each pattern is matched with re.match(pattern, sitekey, re.IGNORECASE).
\* Every pattern starts ^[01]x and ends $; the operators below say what the
\* middle of a pattern matches, on the text between the prefix and the end.

\* ^[01]x under IGNORECASE
RegexPrefix(k) == Len(k) >= 2 /\ k[1] \in {"0", "1"} /\ k[2] \in {"x", "X"}

\* the positions where $ matches: the end of the string, and just before a
\* newline that ends it
Ends(k) == {Len(k)} \cup (IF Len(k) >= 1 /\ k[Len(k)] = "\n" THEN {Len(k) - 1} ELSE {})

\* the text between the prefix and a position $ matches at
Payloads(k) == {SubSeq(k, 3, e) : e \in {x \in Ends(k) : x >= 2}}

\* . matches every character but the newline
NoNewline(p) == \A i \in 1..Len(p) : p[i] # "\n"

\* (unit)\1{n,} with unit = [0-9A-Fa-f]{u}: u hex characters, then at least
\* n more copies of them (a backreference matches case-insensitively)
Periodic(p, u, n) ==
    /\ Len(p) >= u
    /\ Len(p) % u = 0
    /\ Len(p) \div u >= n + 1
    /\ AllIn(SubSeq(p, 1, u), HexChars)
    /\ \A i \in (u + 1)..Len(p) : EqIC(p[i], p[i - u])

\* (text){n,}: at least n copies of text and nothing else
Repeats(p, text, n) ==
    /\ Len(p) % Len(text) = 0
    /\ Len(p) \div Len(text) >= n
    /\ \A i \in 1..Len(p) : EqIC(p[i], text[((i - 1) % Len(text)) + 1])

\* (a|b|..){n,}: at least n blocks, each one of the alternatives (all of
\* length w), and nothing else
Blocks(p, alternatives, w, n) ==
    /\ Len(p) % w = 0
    /\ Len(p) \div w >= n
    /\ \A j \in 0..((Len(p) \div w) - 1) :
           UpperStr(SubSeq(p, j * w + 1, j * w + w)) \in alternatives

\* .*(a|b|..){n,}.* : n blocks in a row somewhere
BlocksSomewhere(p, alternatives, w, n) ==
    \E i \in 1..Len(p) :
        /\ i + n * w - 1 <= Len(p)
        /\ Blocks(SubSeq(p, i, i + n * w - 1), alternatives, w, n)

\* .*(a|b|..).* : one of the words somewhere
ContainsIC(p, words) == \E w \in words : Contains(UpperStr(p), w)

SequentialHex == <<"0", "1", "2", "3", "4", "5", "6", "7", "8", "9", "A", "B", "C", "D", "E", "F">>
Reverse(s) == [i \in 1..Len(s) |-> s[Len(s) + 1 - i]]
HexTestWords == {<<"D", "E", "A", "D">>, <<"B", "E", "E", "F">>, <<"C", "A", "F", "E">>, <<"F", "A", "C", "E">>, <<"B", "A", "B", "E">>, <<"F", "A", "D", "E">>}
FakeKeywords == {<<"T", "E", "S", "T">>, <<"F", "A", "K", "E">>, <<"D", "E", "M", "O">>, <<"E", "X", "A", "M", "P", "L", "E">>, <<"P", "L", "A", "C", "E", "H", "O", "L", "D", "E", "R">>}
TestPairs == {<<"1", "2">>, <<"A", "B">>, <<"C", "D">>, <<"E", "F">>}

\* the 16 patterns, in the order of the list: whether the middle of pattern
\* n matches the payload p
RegexBody(n, p) ==
    CASE n = 1 -> Len(p) >= 20 /\ SubSeq(p, 1, 20) = Rep("0", 20) /\ AllIn(p, HexChars)
      [] n = 2 -> Len(p) >= 20 /\ SubSeq(p, Len(p) - 19, Len(p)) = Rep("0", 20)
                  /\ AllIn(p, HexChars)
      [] n = 3 -> Periodic(p, 1, 25)
      [] n = 4 -> Periodic(p, 2, 12)
      [] n = 5 -> Periodic(p, 4, 6)
      [] n = 6 -> Repeats(p, SequentialHex, 2)
      [] n = 7 -> Repeats(p, Reverse(SequentialHex), 2)
      [] n = 8 -> StartsWithIC(p, Tail(SequentialHex)) /\ NoNewline(p)
      [] n = 9 -> Len(p) >= 20 /\ AllIn(p, {"F", "f"})
      [] n = 10 -> Len(p) >= 20 /\ AllIn(p, {"A", "a"})
      [] n = 11 -> Len(p) >= 20 /\ AllIn(p, Digits)
      [] n = 12 -> BlocksSomewhere(p, HexTestWords, 4, 4) /\ NoNewline(p)
      [] n = 13 -> ContainsIC(p, FakeKeywords) /\ NoNewline(p)
      [] n = 14 -> Len(p) >= 7 /\ p[1] = "4" /\ AllIn(SubSeq(p, 2, 7), {"A", "a"})
                   /\ NoNewline(p)
      [] n = 15 -> \E u \in 1..3 : Periodic(p, u, 8)
      [] n = 16 -> Blocks(p, TestPairs, 2, 10)

RegexReasons ==
    <<"Contains too many zeros (likely placeholder)",
      "Ends with too many zeros (likely placeholder)",
      "Contains repeating single character (likely test key)",
      "Contains repeating 2-char pattern (likely test key)",
      "Contains repeating 4-char pattern (likely test key)",
      "Contains sequential hex pattern (likely test key)",
      "Contains reverse sequential pattern (likely test key)",
      "Starts with sequential pattern (likely test key)",
      "Contains all F characters (likely placeholder)",
      "Contains all A characters (likely placeholder)",
      "Contains only numbers (invalid hex format)",
      "Contains common hex test words",
      "Contains test/fake keywords",
      "Starts with 4AAA... (common placeholder pattern)",
      "Contains short repeating pattern",
      "Contains obvious test sequences">>

\* re.match(INVALID_REGEX_PATTERNS[n], k, re.IGNORECASE)
RegexMatches(n, k) == RegexPrefix(k) /\ \E p \in Payloads(k) : RegexBody(n, p)

\* ------------------------------------------- validator: validate_sitekey

\* the dictionary validate_sitekey starts from; state says how the call
\* ended: "none" (not called), "returned", or "raised" (reason: the exception)
NoResult ==
    [state |-> "none", is_valid |-> FALSE, is_demo |-> FALSE, is_fake |-> FALSE,
     type |-> "unknown", confidence |-> 0, reason |-> ""]

DemoResult ==
    [NoResult EXCEPT !.state = "returned", !.is_demo = TRUE, !.type = "demo",
                     !.confidence = 100]
FakeResult(type, confidence, reason) ==
    [NoResult EXCEPT !.state = "returned", !.is_fake = TRUE, !.type = type,
                     !.confidence = confidence, !.reason = reason]
ValidResult(type, confidence, reason) ==
    [NoResult EXCEPT !.state = "returned", !.is_valid = TRUE, !.type = type,
                     !.confidence = confidence, !.reason = reason]
Raised(exception) == [NoResult EXCEPT !.state = "raised", !.reason = exception]

\* _calculate_entropy: '' gives 0.0; otherwise the first pass of the second
\* loop computes probability = count / length, a float greater than 0, and
\* calls probability.bit_length(), which a float does not have
CalculateEntropy(hex_string) ==
    IF hex_string = <<>>
    THEN [raised |-> "", value |-> 0]
    ELSE [raised |-> "AttributeError", value |-> 0]

\* step 2: the first pattern of INVALID_PATTERNS found in sitekey.upper(), 0 if none
PlaceholderIndex(k) ==
    LET hits == {i \in 1..Len(INVALID_PATTERNS) : Contains(UpperStr(k), INVALID_PATTERNS[i].text)}
    IN  IF hits = {} THEN 0 ELSE CHOOSE i \in hits : \A j \in hits : i <= j

\* (mutant) the loop over INVALID_REGEX_PATTERNS stops after its first pattern
RegexIndexFirstOnly(k) == IF RegexMatches(1, k) THEN 1 ELSE 0

\* step 3: the first pattern of INVALID_REGEX_PATTERNS that matches, 0 if none
RegexIndex(k) ==
    LET hits == {n \in 1..Len(RegexReasons) : RegexMatches(n, k)}
    IN  IF hits = {} THEN 0 ELSE CHOOSE n \in hits : \A m \in hits : n <= m

\* step 4: len(sitekey) >= 20 and sitekey.startswith(('1x', '0x'))
FormatOk(k) == Len(k) >= 20 /\ (StartsWith(k, <<"1", "x">>) \/ StartsWith(k, <<"0", "x">>))

\* step 5, for a key of 32 characters: int(hex_part, 16), then the entropy.
\* An exception of _calculate_entropy is no ValueError: it leaves
\* validate_sitekey.
AdvancedFormat(k) ==
    LET hex_part == SubSeq(k, 3, Len(k))
        entropy == CalculateEntropy(hex_part)
        confidence == IF 50 + entropy.value * 50 < 95 THEN 50 + entropy.value * 50 ELSE 95
    IN  IF ~IntBase16Parses(hex_part)
        THEN FakeResult("invalid_hex", 95, "Contains non-hex characters after prefix")
        ELSE IF entropy.raised # "" THEN Raised(entropy.raised)
        ELSE ValidResult(IF StartsWith(k, <<"1", "x">>) THEN "production" ELSE "development",
                         IF 2 * entropy.value < 1 THEN confidence - 20 ELSE confidence, "")

\* (mutant) the demo keys are looked up after the placeholder and regex checks
ValidateSitekeyDemoLast(k) ==
    IF PlaceholderIndex(k) # 0
    THEN FakeResult("fake", 95,
                    "Contains placeholder text: " \o INVALID_PATTERNS[PlaceholderIndex(k)].name)
    ELSE IF RegexIndex(k) # 0
    THEN FakeResult("fake", 90, RegexReasons[RegexIndex(k)])
    ELSE IF k \in DEMO_SITEKEYS THEN DemoResult
    ELSE IF ~FormatOk(k)
    THEN FakeResult("invalid_format", 100,
                    "Invalid format - must start with 1x/0x and be 20+ chars")
    ELSE IF Len(k) = 32 THEN AdvancedFormat(k)
    ELSE ValidResult("unusual_format", 30, "Unusual length")

\* (mutant) step 4 lacks its return: the key falls through to the last branch,
\* which marks it valid as well
ValidateSitekeyFallThrough(k) ==
    IF k \in DEMO_SITEKEYS THEN DemoResult
    ELSE IF PlaceholderIndex(k) # 0
    THEN FakeResult("fake", 95,
                    "Contains placeholder text: " \o INVALID_PATTERNS[PlaceholderIndex(k)].name)
    ELSE IF RegexIndex(k) # 0
    THEN FakeResult("fake", 90, RegexReasons[RegexIndex(k)])
    ELSE IF ~FormatOk(k)
    THEN [ValidResult("unusual_format", 30, "Unusual length") EXCEPT !.is_fake = TRUE]
    ELSE IF Len(k) = 32 THEN AdvancedFormat(k)
    ELSE ValidResult("unusual_format", 30, "Unusual length")

\* SitekeyValidator.validate_sitekey(sitekey)
ValidateSitekey(k) ==
    IF k \in DEMO_SITEKEYS THEN DemoResult
    ELSE IF PlaceholderIndex(k) # 0
    THEN FakeResult("fake", 95,
                    "Contains placeholder text: " \o INVALID_PATTERNS[PlaceholderIndex(k)].name)
    ELSE IF RegexIndex(k) # 0
    THEN FakeResult("fake", 90, RegexReasons[RegexIndex(k)])
    ELSE IF ~FormatOk(k)
    THEN FakeResult("invalid_format", 100,
                    "Invalid format - must start with 1x/0x and be 20+ chars")
    ELSE IF Len(k) = 32 THEN AdvancedFormat(k)
    ELSE ValidResult("unusual_format", 30, "Unusual length")

\* ------------------------------------------------- validator: the inputs

\* longest generated payload (the text after the two-character prefix)
MaxPayload == 32

\* the first n characters of unit repeated over and over
Cycle(unit, n) == [i \in 1..n |-> unit[((i - 1) % Len(unit)) + 1]]

\* fifteen different hexadecimal digits: twice over, a payload of 30
DiverseUnit == <<"3", "F", "9", "A", "7", "C", "2", "E", "5", "B", "8", "D", "1", "0", "4">>

KeyPrefixes == {<<"1", "x">>, <<"0", "x">>, <<"1", "X">>, <<"2", "x">>, <<>>}
PayloadUnits ==
    {<<"F">>, <<"f", "F">>, <<"0">>, <<"A">>, <<"7">>, <<"3", "a">>, <<"1", "2">>,
     <<"d", "E", "a", "D">>, <<"3", "a", "7">>, <<"g">>, SequentialHex,
     Reverse(SequentialHex), DiverseUnit}
KeySuffixes == {<<>>, <<"G">>, <<"\n">>, <<"_", "1">>}

GeneratedSitekeys ==
    {pre \o Cycle(unit, n) \o suf :
        pre \in KeyPrefixes, unit \in PayloadUnits, n \in 0..MaxPayload, suf \in KeySuffixes}

FixedSitekeys ==
    {<<>>, DemoKey1, DemoKey2, DemoKey3, Placeholder4A, PlaceholderYourSiteKey,
     KeyExample, Key20, Key19, KeyBadPrefix,
     <<"1", "x", "A", "0", "0", "0", "0", "0", "0", "0", "0", "0", "0", "0", "0", "0", "0", "0", "0", "0", "0", "0", "0", "0", "0">>,
     <<"1", "x", "1", "2", "3", "4", "5", "6", "7", "8", "9", "a", "b", "c", "d", "e", "f", "X", "Y", "Z">>,
     <<"1", "x", "1", "2", "A", "B", "C", "D", "E", "F", "1", "2", "A", "B", "C", "D", "E", "F", "1", "2", "a", "b">>,
     <<"1", "x", "p", "l", "a", "c", "e", "h", "o", "l", "d", "e", "r", "0", "1", "2", "3", "4", "5", "6", "7", "8", "9", "a", "b", "c", "d", "e", "f", "0", "1", "2">>,
     <<"0", "x", "3", "f", "9", "A", "7", "c", "2", "E", "5", "b", "8", "D", "1", "0", "4", "6", "a", "B", "n", "u", "l", "l">>,
     <<"1", "x", "y", "o", "u", "r", "_", "s", "i", "t", "e", "_", "k", "e", "y", "_", "0", "1", "2", "3", "4", "5", "6", "7", "8", "9">>,
     <<"0", "x", "t", "e", "s", "t", "3", "f", "9", "A", "7", "c", "2", "E", "5", "b", "8", "D", "1", "0", "4", "6", "a", "B">>,
     <<"0", "x", "4", "A", "A", "A", "A", "A", "A", "A", "D", "n", "P", "I", "D", "R", "O", "r", "m", "t", "1", "W", "w", "j">>,
     <<"1", "x">> \o Placeholder4A \o <<"3", "f", "9", "A", "7", "c", "2", "E", "5", "b", "8", "D">>,
     <<"1", "X">> \o SubSeq(KeyExample, 3, Len(KeyExample))}

SitekeyInputs == FixedSitekeys \cup GeneratedSitekeys

\* one call of validate_sitekey on the input
Validate ==
    /\ result.state = "none"
    /\ result' = ValidateSitekey(sitekey)
    /\ UNCHANGED <<sitekey, serverVars>>

\* ------------------------- solver: attempt_capsolver_turnstile_solve, main

\* most elements extract_turnstile_data returns in one run
MaxElements == 2

\* "1x" and thirty F: the validator calls it fake (all F characters)
KeyAllF == <<"1", "x">> \o Rep("F", 30)

\* An element of turnstile_data['elements'].  The container scans give
\* 'visible' and 'sitekey' (null when the attribute is missing); the iframe
\* scan gives 'visible' but no 'sitekey' key; the script scan gives neither.
Element(keys, v, k) == [keys |-> keys, visible |-> v, sitekey |-> k]
ElementKinds ==
    {Element({"visible", "sitekey"}, FALSE, KeyExample),
     Element({"visible", "sitekey"}, TRUE, <<>>),
     Element({"visible", "sitekey"}, TRUE, DemoKey1),
     Element({"visible", "sitekey"}, TRUE, KeyAllF),
     Element({"visible", "sitekey"}, TRUE, KeyExample),
     Element({"visible"}, TRUE, <<>>)}
ElementLists == UNION {[1..n -> ElementKinds] : n \in 0..MaxElements}

\* what the collaborators answer while one element is solved:
\* capsolver.solve_turnstile (a token or None), page.evaluate of the
\* injection script (true, false, or an exception), and
\* attempt_server_turnstile_solve (a token or None)
SolveOutcomes ==
    [api : {"token", "none"}, injected : {"yes", "no", "raises"},
     server : {"token", "none"}, server_injected : {"yes", "no", "raises"}]

SolvingIdle ==
    [pc |-> "idle", elements |-> <<>>, next |-> 1, success_count |-> 0,
     log |-> <<>>, success |-> FALSE]

\* one strategy attempted on element i
Attempt(strategy, i, k, ok) ==
    [strategy |-> strategy, element |-> i, sitekey |-> k, succeeded |-> ok]

\* the strategies the loop body runs on a visible element with a sitekey:
\* the API first; the local server only when the API returned no token
SolveAttempts(i, k, o) ==
    IF o.api = "token"
    THEN <<Attempt("api", i, k, o.injected = "yes")>>
    ELSE <<Attempt("api", i, k, FALSE),
           Attempt("server", i, k, o.server = "token" /\ o.server_injected = "yes")>>

\* success_count += 1 happens at most once per element
Solved(attempts) == \E p \in DOMAIN attempts : attempts[p].succeeded

\* the start of attempt_capsolver_turnstile_solve: the elements are
\* extracted; without elements it returns False at once
ExtractTurnstileData(es) ==
    /\ solving.pc = "idle"
    /\ solving' = IF es = <<>>
                  THEN [solving EXCEPT !.pc = "returned", !.success = FALSE]
                  ELSE [solving EXCEPT !.pc = "elements", !.elements = es]
    /\ UNCHANGED <<serverVars, validatorVars, tester, poll, post, detector, cleanup>>

\* one pass of the loop over the elements, and the return after the last
\* one.  element['visible'] or element['sitekey'] on an element without that
\* key raises KeyError outside the inner try: the function returns False.
SolveElement(o) ==
    /\ solving.pc = "elements"
    /\ LET i == solving.next
           e == solving.elements[i]
           last == i = Len(solving.elements)
           skip == [solving EXCEPT
                       !.next = i + 1,
                       !.pc = IF last THEN "returned" ELSE "elements",
                       !.success = last /\ solving.success_count > 0]
           abort == [solving EXCEPT !.pc = "returned", !.success = FALSE]
           attempts == SolveAttempts(i, e.sitekey, o)
           count == solving.success_count + (IF Solved(attempts) THEN 1 ELSE 0)
       IN  solving' =
               IF "visible" \notin e.keys THEN abort
               ELSE IF ~e.visible THEN skip
               ELSE IF "sitekey" \notin e.keys THEN abort
               ELSE IF e.sitekey = <<>> THEN skip
               ELSE [solving EXCEPT
                        !.log = solving.log \o attempts,
                        !.success_count = count,
                        !.next = i + 1,
                        !.pc = IF last THEN "returned" ELSE "elements",
                        !.success = last /\ count > 0]
    /\ UNCHANGED <<serverVars, validatorVars, tester, poll, post, detector, cleanup>>

\* main after attempt_capsolver_turnstile_solve: the page-wide automatic
\* click (element 0: it is not aimed at one element) runs only on success
MainAfterSolve(clicked) ==
    /\ solving.pc = "returned"
    /\ solving' = [solving EXCEPT
                      !.pc = "done",
                      !.log = IF solving.success
                              THEN solving.log \o <<Attempt("click", 0, <<>>, clicked)>>
                              ELSE solving.log]
    /\ UNCHANGED <<serverVars, validatorVars, tester, poll, post, detector, cleanup>>

\* ---------------------------- cf_test: CloudflareTurnstileDetector, test_url

\* Turnstile widgets a page holds at most
MaxWidgets == 2
\* test_url calls handle_all_turnstile_widgets(max_attempts=5)
max_attempts == 5

WidgetIds == 1..MaxWidgets
\* what determine_widget_state finds for a widget of the page; "absent": the
\* widget is not on the page (or not visible), detection does not return it
WidgetStates == {"normal", "loading", "error", "success"}
PageStates == WidgetStates \cup {"absent"}
Pages == [WidgetIds -> PageStates]

\* widget 1 is a container with a checkbox inside, the others have none
HasCheckbox(id) == id = 1

\* calculate_confidence, in tenths, of a div.cf-turnstile with data-sitekey
\* (0.4 + 0.3) in the given state
Confidence(state) ==
    LET c == 7 + (CASE state = "error" -> 1
                    [] state = "success" -> -3
                    [] state = "loading" -> -1
                    [] OTHER -> 0)
    IN  IF c > 10 THEN 10 ELSE c

\* the record analyze_widget_element builds
WidgetRecord(id, state) ==
    [id |-> id, state |-> state, has_checkbox |-> HasCheckbox(id),
     confidence |-> Confidence(state)]

\* sorted(s, key=..., reverse=True), score[i] being the key of s[i]:
\* descending, equal keys keep their order
StableSortDesc(s, score) ==
    LET n == Len(s)
        Before(a, b) == score[a] > score[b] \/ (score[a] = score[b] /\ a < b)
        order == CHOOSE f \in [1..n -> 1..n] :
                     /\ \A i, j \in 1..n : i # j => f[i] # f[j]
                     /\ \A i, j \in 1..n : i < j => Before(f[i], f[j])
    IN  [i \in 1..n |-> s[order[i]]]

\* the ids in ascending order: the order the page is scanned in
RECURSIVE ScanOrder(_)
ScanOrder(ids) ==
    IF ids = {} THEN <<>>
    ELSE LET m == CHOOSE x \in ids : \A y \in ids : x <= y
         IN  <<m>> \o ScanOrder(ids \ {m})

RecordConfidence(w) == w.confidence

\* detect_turnstile_widgets: a record for every widget on the page, sorted by
\* confidence (deduplicate_widgets)
DetectTurnstileWidgets(page) ==
    LET present == ScanOrder({id \in WidgetIds : page[id] # "absent"})
        found == [i \in 1..Len(present) |-> WidgetRecord(present[i], page[present[i]])]
    IN  StableSortDesc(found, [i \in 1..Len(found) |-> RecordConfidence(found[i])])

\* priority_score, in tenths
PriorityScore(w) ==
    w.confidence + (IF w.has_checkbox THEN 10 ELSE 0)
                 + (CASE w.state = "error" -> 5
                      [] w.state = "success" -> -20
                      [] w.state = "loading" -> -5
                      [] OTHER -> 0)

PrioritizeWidgets(widgets) ==
    StableSortDesc(widgets, [i \in 1..Len(widgets) |-> PriorityScore(widgets[i])])

\* a click issued on a widget record
Click(kind, w) == [kind |-> kind, id |-> w.id, state |-> w.state]

\* What the page does while one widget is processed: the state a loading
\* widget has after the wait, whether handle_error_state finds something to
\* click, whether the element is visible, whether element.check() is among
\* the checkbox strategies tried, whether the click is verified, whether a
\* refresh button is found afterwards, and the state the widget is left in.
\* An answer nobody asks for is left at its default.
WidgetOutcomes(w) ==
    {o \in [waited : IF w.state = "loading" THEN WidgetStates ELSE {w.state},
            error_click : IF w.state = "error" THEN BOOLEAN ELSE {FALSE},
            visible : BOOLEAN,
            check : IF w.has_checkbox THEN BOOLEAN ELSE {FALSE},
            verified : BOOLEAN,
            refresh_button : BOOLEAN,
            after : PageStates] :
        LET returns_early == w.state = "loading" /\ o.waited = "success"
            clicks == ~returns_early /\ o.visible
        IN  /\ returns_early => (~o.visible /\ ~o.refresh_button)
            /\ ~clicks => (~o.check /\ ~o.verified)
            /\ (clicks /\ o.verified) => ~o.refresh_button
            /\ returns_early => o.after = o.waited}

\* click_turnstile_widget(widget): the clicks it issues and what it returns
ClickTurnstileWidget(w, o) ==
    IF w.state = "success" THEN [clicks |-> {}, result |-> TRUE]
    ELSE IF w.state = "loading" /\ o.waited = "success" THEN [clicks |-> {}, result |-> TRUE]
    ELSE LET retry == IF w.state = "error" /\ o.error_click
                      THEN {Click("refresh", w)} ELSE {}
         IN  IF ~o.visible THEN [clicks |-> retry, result |-> FALSE]
             ELSE [clicks |-> retry \cup {Click("left", w)}
                                 \cup (IF o.check THEN {Click("check", w)} ELSE {}),
                   result |-> o.verified]

\* try_refresh_strategies(widget): a refresh element of the container is
\* clicked, or else the widget is right-clicked
TryRefreshStrategies(w, o) ==
    IF o.refresh_button THEN {Click("refresh", w)} ELSE {Click("right", w)}

\* (mutant) a widget found in state success is handed to the refresh strategies
HandleWidgetRefreshesSuccess(w, o) ==
    IF w.state = "success"
    THEN [clicks |-> TryRefreshStrategies(w, o), success |-> TRUE, stop |-> FALSE]
    ELSE LET c == ClickTurnstileWidget(w, o)
         IN  IF c.result
             THEN [clicks |-> c.clicks, success |-> TRUE, stop |-> TRUE]
             ELSE [clicks |-> c.clicks \cup TryRefreshStrategies(w, o),
                   success |-> FALSE, stop |-> FALSE]

\* the body of the loop over the widgets in handle_all_turnstile_widgets:
\* the clicks issued, whether success is set, whether the loop is left
HandleWidget(w, o) ==
    IF w.state = "success"
    THEN [clicks |-> {}, success |-> TRUE, stop |-> FALSE]
    ELSE LET c == ClickTurnstileWidget(w, o)
         IN  IF c.result
             THEN [clicks |-> c.clicks, success |-> TRUE, stop |-> TRUE]
             ELSE [clicks |-> c.clicks \cup TryRefreshStrategies(w, o),
                   success |-> FALSE, stop |-> FALSE]

\* (mutant) an empty detection is treated like any other
NoWidgetsNever(widgets) == FALSE

\* if not widgets
NoWidgets(widgets) == Len(widgets) = 0

\* error_widgets of test_url is not empty
StillInError(final_widgets) ==
    \E i \in DOMAIN final_widgets : final_widgets[i].state = "error"

\* pc: "attempt" (top of the loop over the attempts), "widgets" (inside the
\* loop over the widgets), "pass_end" (after it), "handled"
\* (handle_all_turnstile_widgets has returned), "done" (test_url has).
\* first_empty: the first detection found no widget; seen_success: the
\* detection of this pass found a widget in state success; clicks: the clicks
\* issued on the widget processed last; acted: a click or a reload was issued;
\* waits: the wait_time of every wait between attempts so far; reloads: the
\* attempts (counted from 1) that page.reload was called before
TesterIdle(page) ==
    [pc |-> "attempt", page |-> page, attempt |-> 0, success |-> FALSE,
     first_empty |-> FALSE, seen_success |-> FALSE, queue |-> <<>>, clicks |-> {},
     acted |-> FALSE, detections |-> 0, waits |-> <<>>, reloads |-> {},
     result |-> FALSE]

\* the top of an attempt: detection, then the empty check or the sort
DetectPass ==
    /\ tester.pc = "attempt"
    /\ LET widgets == DetectTurnstileWidgets(tester.page)
           seen == [tester EXCEPT
                       !.detections = tester.detections + 1,
                       !.clicks = {},
                       !.first_empty = IF tester.detections = 0
                                       THEN Len(widgets) = 0 ELSE tester.first_empty,
                       !.seen_success =
                           \E i \in DOMAIN widgets : widgets[i].state = "success"]
       IN  tester' = IF NoWidgets(widgets)
                     THEN [seen EXCEPT !.pc = "handled", !.success = TRUE]
                     ELSE IF widgets = <<>>
                     THEN [seen EXCEPT !.pc = "pass_end"]
                     ELSE [seen EXCEPT !.pc = "widgets",
                                       !.queue = PrioritizeWidgets(widgets)]
    /\ UNCHANGED <<serverVars, validatorVars, solving, poll, post, detector, cleanup>>

\* one widget of the pass
ProcessWidget ==
    /\ tester.pc = "widgets"
    /\ LET w == Head(tester.queue)
       IN  \E o \in WidgetOutcomes(w) :
               LET h == HandleWidget(w, o)
                   rest == Tail(tester.queue)
               IN  tester' = [tester EXCEPT
                       !.clicks = h.clicks,
                       !.acted = tester.acted \/ h.clicks # {},
                       !.page = IF h.clicks # {} \/ w.state = "loading"
                                THEN [tester.page EXCEPT ![w.id] = o.after]
                                ELSE tester.page,
                       !.success = tester.success \/ h.success,
                       !.queue = IF h.stop THEN <<>> ELSE rest,
                       !.pc = IF h.stop \/ rest = <<>> THEN "pass_end" ELSE "widgets"]
    /\ UNCHANGED <<serverVars, validatorVars, solving, poll, post, detector, cleanup>>

\* wait_time = (attempt + 1) * 2
WaitTime(attempt) == (attempt + 1) * 2

\* page.reload is called after this attempt (attempts counted from 0)
ReloadsAfter(attempt) ==
    attempt < max_attempts - 1 /\ attempt >= max_attempts - 2

\* after the widgets of a pass: leave on success; otherwise wait, reload the
\* page in the last attempts, and start the next attempt if there is one
EndPass ==
    /\ tester.pc = "pass_end"
    /\ LET more == tester.attempt < max_attempts - 1
           reload == ReloadsAfter(tester.attempt)
       IN  \E page \in (IF ~tester.success /\ reload THEN Pages ELSE {tester.page}) :
               tester' = IF tester.success
                         THEN [tester EXCEPT !.pc = "handled", !.clicks = {}]
                         ELSE [tester EXCEPT
                                  !.pc = IF more THEN "attempt" ELSE "handled",
                                  !.attempt = tester.attempt + 1,
                                  !.acted = tester.acted \/ reload,
                                  !.waits = IF more
                                            THEN Append(tester.waits, WaitTime(tester.attempt))
                                            ELSE tester.waits,
                                  !.reloads = IF reload
                                              THEN tester.reloads \cup {tester.attempt + 2}
                                              ELSE tester.reloads,
                                  !.clicks = {},
                                  !.page = page]
    /\ UNCHANGED <<serverVars, validatorVars, solving, poll, post, detector, cleanup>>

\* test_url after handle_all_turnstile_widgets: on success the page is
\* detected once more and the outcome is whether no widget is in state error
FinalVerification ==
    /\ tester.pc = "handled"
    /\ LET final_widgets == DetectTurnstileWidgets(tester.page)
       IN  tester' = IF tester.success
                     THEN [tester EXCEPT !.pc = "done",
                                         !.result = ~StillInError(final_widgets)]
                     ELSE [tester EXCEPT !.pc = "done", !.result = FALSE]
    /\ UNCHANGED <<serverVars, validatorVars, solving, poll, post, detector, cleanup>>

\* ------------- solver: attempt_server_turnstile_solve against the server

\* The main thread runs attempt_server_turnstile_solve; the server thread
\* (HTTPServer.serve_forever, one request at a time) runs the handlers.  The
\* two share TurnstileRequestHandler.sessions: get_all_sessions copies the
\* table but not the session dicts in it, so the poll reads the very dicts
\* the POST handler assigns to, one field at a time.

\* the assignments of _handle_token_submission, in the order of the code
TokenWrites == <<"token", "status", "completed_at">>

\* the session after one of the three assignments
WriteField(session, field, token, t) ==
    [session EXCEPT ![field] = StoreToken(session, token, t)[field]]

\* stored: the (session id, token) pairs the handler has assigned so far
PostIdle ==
    [pc |-> "idle", sessionId |-> PyNone, token |-> PyNone, written |-> 0, stored |-> {}]

\* pc: "idle", "polling" (top of the while loop), "status" (about to read a
\* session's status), "token" (status was completed: about to test the
\* token), "take" (token was truthy: about to read it for the return),
\* "scanned" (the for loop is over), "returned".  own: the session this
\* call's /solve request created; from: the session whose token is returned;
\* observed: the test of the if statement has found a completed session with
\* a token; raised: an exception reached the except clause of the function.
PollIdle ==
    [pc |-> "idle", own |-> PyNone, snapshot |-> <<>>, idx |-> 1,
     returned |-> PyNone, from |-> PyNone, observed |-> FALSE, raised |-> FALSE]

\* the sitekeys and urls attempt_server_turnstile_solve is called with
SolverQueries ==
    {Query(KeyExample, UrlGood, <<>>, <<>>), Query(DemoKey1, UrlGood, <<>>, <<>>)}

\* a JSON number posted as the token: true in a test, and no string to slice
NumberToken == "12345 (a number)"

\* bodies of POST /token while a solve is under way
SolverBodies ==
    [body : {"object"}, sessionId : SessionIds, token : {"tok-A", PyNone, NumberToken}]

\* the keys of the table in insertion order (nothing is deleted here, and
\* the n-th session stored has the n-th uuid)
InsertionOrder(table) ==
    LET n == Cardinality(DOMAIN table) IN [i \in 1..n |-> Uuid4(i)]

\* a call of attempt_server_turnstile_solve up to the while loop: the solve
\* page is opened, the server thread answers its GET /solve
SolverGoto(q) ==
    /\ poll.pc \in {"idle", "returned"}
    /\ post.pc = "idle"
    /\ ServeSolvePage(q)
    /\ poll' = [PollIdle EXCEPT
                   !.pc = "polling",
                   !.own = IF uuidCalls' # uuidCalls THEN Uuid4(uuidCalls') ELSE PyNone]
    /\ UNCHANGED <<solving, tester, post, detector, cleanup>>

\* sessions = server.get_all_sessions()
PollCopy ==
    /\ poll.pc = "polling"
    /\ LET snapshot == InsertionOrder(sessions)
       IN  poll' = [poll EXCEPT !.snapshot = snapshot, !.idx = 1,
                                !.pc = IF snapshot = <<>> THEN "scanned" ELSE "status"]
    /\ UNCHANGED <<serverVars, validatorVars, solving, tester, post, detector, cleanup>>

\* session_data.get('status') == 'completed'
PollReadStatus ==
    /\ poll.pc = "status"
    /\ LET sid == poll.snapshot[poll.idx]
           last == poll.idx = Len(poll.snapshot)
       IN  poll' = IF sessions[sid].status = "completed"
                   THEN [poll EXCEPT !.pc = "token"]
                   ELSE [poll EXCEPT !.idx = poll.idx + 1,
                                     !.pc = IF last THEN "scanned" ELSE "status"]
    /\ UNCHANGED <<serverVars, validatorVars, solving, tester, post, detector, cleanup>>

\* ... and session_data.get('token')
PollTestToken ==
    /\ poll.pc = "token"
    /\ LET sid == poll.snapshot[poll.idx]
           last == poll.idx = Len(poll.snapshot)
       IN  poll' = IF sessions[sid].token # PyNone
                   THEN [poll EXCEPT !.pc = "take", !.observed = TRUE]
                   ELSE [poll EXCEPT !.idx = poll.idx + 1,
                                     !.pc = IF last THEN "scanned" ELSE "status"]
    /\ UNCHANGED <<serverVars, validatorVars, solving, tester, post, detector, cleanup>>

\* token = session_data['token'], the log line with token[:50], the return.
\* token[:50] raises TypeError on None; the except clause of the function
\* prints the error and returns None.
PollTakeToken ==
    /\ poll.pc = "take"
    /\ LET sid == poll.snapshot[poll.idx]
           token == sessions[sid].token
       IN  poll' = IF Sliceable(token)
                   THEN [poll EXCEPT !.pc = "returned", !.returned = token, !.from = sid]
                   ELSE [poll EXCEPT !.pc = "returned", !.returned = PyNone, !.raised = TRUE]
    /\ UNCHANGED <<serverVars, validatorVars, solving, tester, post, detector, cleanup>>

\* after the for loop: the timeout check, then either return None or sleep
PollTimeoutCheck(timed_out) ==
    /\ poll.pc = "scanned"
    /\ poll' = IF timed_out
               THEN [poll EXCEPT !.pc = "returned", !.returned = PyNone]
               ELSE [poll EXCEPT !.pc = "polling"]
    /\ UNCHANGED <<serverVars, validatorVars, solving, tester, post, detector, cleanup>>

\* POST /token for a session of the table, up to the first assignment
PostBegin(b) ==
    /\ post.pc = "idle"
    /\ b.sessionId \in DOMAIN sessions
    /\ request' = TokenRequest(b)
    /\ response' = NoResponse
    /\ post' = [post EXCEPT !.pc = "writing", !.sessionId = b.sessionId,
                             !.token = b.token, !.written = 0]
    /\ UNCHANGED <<sessions, uuidCalls, now, validatorVars, solving, tester, poll, detector, cleanup>>

\* the next of the three assignments; self.sessions[session_id] raises
\* KeyError when the session has been deleted since the handler looked it up
\* (do_POST answers 500)
PostWrite ==
    /\ post.pc = "writing"
    /\ post.written < Len(TokenWrites)
    /\ IF post.sessionId \in DOMAIN sessions
       THEN /\ sessions' = [sessions EXCEPT
                               ![post.sessionId] = WriteField(sessions[post.sessionId],
                                                              TokenWrites[post.written + 1],
                                                              post.token, now)]
            /\ post' = [post EXCEPT
                           !.written = post.written + 1,
                           !.stored = IF TokenWrites[post.written + 1] = "token"
                                      THEN post.stored \cup {<<post.sessionId, post.token>>}
                                      ELSE post.stored]
            /\ UNCHANGED response
       ELSE /\ response' = SendError(500, "KeyError")
            /\ post' = [PostIdle EXCEPT !.stored = post.stored]
            /\ UNCHANGED sessions
    /\ UNCHANGED <<uuidCalls, now, request, validatorVars, solving, tester, poll, detector,
                   cleanup>>

\* the log line and the answer
PostRespond ==
    /\ post.pc = "writing"
    /\ post.written = Len(TokenWrites)
    /\ response' = IF Sliceable(post.token)
                   THEN SendAck
                   ELSE SendError(500, "object is not subscriptable")
    /\ post' = [PostIdle EXCEPT !.stored = post.stored]
    /\ UNCHANGED <<sessions, uuidCalls, now, request, validatorVars, solving, tester, poll, detector, cleanup>>

\* ------------------------------------------- cf_test: the pure methods

\* no method of the detector has been called
DetectorIdle == [fn |-> "none"]

\* longest list of widget records handed to deduplicate_widgets
MaxRecords == 3

\* The fields of a widget record that deduplicate_widgets reads: the corner
\* of the bounding box, has_checkbox and the confidence (in tenths).  n is
\* the place of the record in the list: two records of a list are never
\* equal, they hold different element handles.
DedupRecords(n) ==
    [n : {n}, x : {0, 8, 16}, y : {0, 12}, has_checkbox : BOOLEAN, confidence : {5, 7}]
DedupLists ==
    UNION {{ws \in [1..len -> UNION {DedupRecords(n) : n \in 1..len}] :
               \A i \in 1..len : ws[i].n = i} : len \in 0..MaxRecords}

Abs(v) == IF v < 0 THEN -v ELSE v

\* abs(bbox['x'] - existing_bbox['x']) < 10 and abs(bbox['y'] - existing_bbox['y']) < 10
Close(a, b) == Abs(a.x - b.x) < 10 /\ Abs(a.y - b.y) < 10

\* list.remove(existing) on a list of different records
Remove(list, j) == SubSeq(list, 1, j - 1) \o SubSeq(list, j + 1, Len(list))

\* One pass of the outer loop: widget is compared with the records kept so
\* far, in their order, up to the first one close to it; there the inner loop
\* is left, with that record removed or with widget marked as a duplicate.
KeepOne(unique_widgets, widget) ==
    LET close == {j \in 1..Len(unique_widgets) : Close(widget, unique_widgets[j])}
    IN  IF close = {} THEN Append(unique_widgets, widget)
        ELSE LET j == CHOOSE k \in close : \A m \in close : k <= m
                 existing == unique_widgets[j]
             IN  IF widget.has_checkbox /\ ~existing.has_checkbox
                 THEN Append(Remove(unique_widgets, j), widget)
                 ELSE IF existing.has_checkbox /\ ~widget.has_checkbox
                 THEN unique_widgets
                 ELSE IF widget.confidence > existing.confidence
                 THEN Append(Remove(unique_widgets, j), widget)
                 ELSE unique_widgets

\* the outer loop over widgets[from..]
RECURSIVE KeepAll(_, _, _)
KeepAll(unique_widgets, widgets, from) ==
    IF from > Len(widgets) THEN unique_widgets
    ELSE KeepAll(KeepOne(unique_widgets, widgets[from]), widgets, from + 1)

\* deduplicate_widgets(widgets)
DeduplicateWidgets(widgets) ==
    LET unique_widgets == KeepAll(<<>>, widgets, 1)
    IN  StableSortDesc(unique_widgets,
                       [i \in 1..Len(unique_widgets) |-> RecordConfidence(unique_widgets[i])])

DedupCall(widgets) ==
    [fn |-> "deduplicate_widgets", widgets |-> widgets, returned |-> FALSE, unique |-> <<>>]

\* one call of deduplicate_widgets on the input
Deduplicate ==
    /\ detector.fn = "deduplicate_widgets"
    /\ ~detector.returned
    /\ detector' = [detector EXCEPT !.returned = TRUE,
                                     !.unique = DeduplicateWidgets(detector.widgets)]
    /\ UNCHANGED <<serverVars, validatorVars, solving, tester, poll, post, cleanup>>

\* str.lower() of one ASCII character
Lower(c) ==
    IF \E i \in 1..Len(UpperCase) : UpperCase[i] = c
    THEN LowerCase[CHOOSE i \in 1..Len(UpperCase) : UpperCase[i] = c]
    ELSE c

\* str.lower()
LowerStr(s) == [i \in 1..Len(s) |-> Lower(s[i])]

\* self.turnstile_selectors, in the order of the list
turnstile_selectors ==
    <<<<"d", "i", "v", "[", "d", "a", "t", "a", "-", "s", "i", "t", "e", "k", "e", "y", "]">>,
      <<".", "c", "f", "-", "t", "u", "r", "n", "s", "t", "i", "l", "e">>,
      <<"[", "c", "l", "a", "s", "s", "*", "=", "\"", "c", "f", "-", "t", "u", "r", "n", "s", "t", "i", "l", "e", "\"", "]">>,
      <<"[", "i", "d", "*", "=", "\"", "t", "u", "r", "n", "s", "t", "i", "l", "e", "\"", "]">>,
      <<"d", "i", "v", "[", "d", "a", "t", "a", "-", "t", "h", "e", "m", "e", "]">>,
      <<"i", "n", "p", "u", "t", "[", "t", "y", "p", "e", "=", "\"", "c", "h", "e", "c", "k", "b", "o", "x", "\"", "]", "[", "i", "d", "*", "=", "\"", "c", "f", "-", "c", "h", "l", "\"", "]">>,
      <<"i", "n", "p", "u", "t", "[", "t", "y", "p", "e", "=", "\"", "c", "h", "e", "c", "k", "b", "o", "x", "\"", "]", "[", "n", "a", "m", "e", "*", "=", "\"", "c", "f", "-", "t", "u", "r", "n", "s", "t", "i", "l", "e", "\"", "]">>,
      <<"l", "a", "b", "e", "l", "[", "f", "o", "r", "*", "=", "\"", "c", "f", "-", "c", "h", "l", "\"", "]">>,
      <<"l", "a", "b", "e", "l", "[", "f", "o", "r", "*", "=", "\"", "t", "u", "r", "n", "s", "t", "i", "l", "e", "\"", "]">>,
      <<".", "c", "f", "-", "e", "r", "r", "o", "r", "-", "d", "e", "t", "a", "i", "l", "s">>,
      <<".", "c", "f", "-", "t", "u", "r", "n", "s", "t", "i", "l", "e", "-", "w", "r", "a", "p", "p", "e", "r">>,
      <<"d", "i", "v", ":", "h", "a", "s", "-", "t", "e", "x", "t", "(", "\"", "V", "e", "r", "i", "f", "y", " ", "y", "o", "u", " ", "a", "r", "e", " ", "h", "u", "m", "a", "n", "\"", ")">>,
      <<"d", "i", "v", ":", "h", "a", "s", "-", "t", "e", "x", "t", "(", "\"", "H", "a", "v", "i", "n", "g", " ", "t", "r", "o", "u", "b", "l", "e", "?", "\"", ")">>,
      <<"i", "f", "r", "a", "m", "e", "[", "s", "r", "c", "*", "=", "\"", "t", "u", "r", "n", "s", "t", "i", "l", "e", "\"", "]">>,
      <<"i", "f", "r", "a", "m", "e", "[", "s", "r", "c", "*", "=", "\"", "c", "h", "a", "l", "l", "e", "n", "g", "e", "s", ".", "c", "l", "o", "u", "d", "f", "l", "a", "r", "e", "\"", "]">>,
      <<"i", "f", "r", "a", "m", "e", "[", "t", "i", "t", "l", "e", "*", "=", "\"", "c", "h", "a", "l", "l", "e", "n", "g", "e", "\"", "]">>,
      <<"i", "f", "r", "a", "m", "e", "[", "t", "i", "t", "l", "e", "*", "=", "\"", "v", "e", "r", "i", "f", "i", "c", "a", "t", "i", "o", "n", "\"", "]">>,
      <<"i", "f", "r", "a", "m", "e", "[", "t", "i", "t", "l", "e", "*", "=", "\"", "W", "i", "d", "g", "e", "t", " ", "c", "o", "n", "t", "a", "i", "n", "i", "n", "g", "\"", "]">>,
      <<"d", "i", "v", "[", "d", "a", "t", "a", "-", "c", "a", "l", "l", "b", "a", "c", "k", "]">>,
      <<".", "c", "h", "a", "l", "l", "e", "n", "g", "e", "-", "c", "o", "n", "t", "a", "i", "n", "e", "r">>,
      <<".", "c", "a", "p", "t", "c", "h", "a", "-", "c", "o", "n", "t", "a", "i", "n", "e", "r">>,
      <<"[", "c", "l", "a", "s", "s", "*", "=", "\"", "c", "h", "a", "l", "l", "e", "n", "g", "e", "\"", "]">>,
      <<"d", "i", "v", "[", "c", "l", "a", "s", "s", "*", "=", "\"", "c", "l", "o", "u", "d", "f", "l", "a", "r", "e", "\"", "]">>,
      <<"[", "d", "a", "t", "a", "-", "c", "f", "-", "b", "e", "a", "c", "o", "n", "]">>,
      <<".", "c", "f", "-", "b", "r", "o", "w", "s", "e", "r", "-", "v", "e", "r", "i", "f", "i", "c", "a", "t", "i", "o", "n">>,
      <<"i", "n", "p", "u", "t", "[", "t", "y", "p", "e", "=", "\"", "c", "h", "e", "c", "k", "b", "o", "x", "\"", "]", "[", "d", "a", "t", "a", "-", "s", "i", "t", "e", "k", "e", "y", "]">>,
      <<"b", "u", "t", "t", "o", "n", "[", "d", "a", "t", "a", "-", "s", "i", "t", "e", "k", "e", "y", "]">>,
      <<".", "c", "h", "a", "l", "l", "e", "n", "g", "e", "-", "f", "o", "r", "m">>>>

\* The attributes analyze_widget_element collects and calculate_confidence
\* reads.  The dict holds an attribute only when its value is not empty:
\* here every name is there, and <<>> says that the dict lacks it.
AttributeValues ==
    [data_sitekey : {<<>>, KeyExample},
     data_theme : {<<>>, <<"l", "i", "g", "h", "t">>},
     data_callback : {<<>>, <<"o", "n", "S", "o", "l", "v", "e", "d">>},
     src : {<<>>, <<"h", "t", "t", "p", "s", ":", "/", "/", "c", "h", "a", "l", "l", "e", "n", "g", "e", "s", ".", "c", "l", "o", "u", "d", "f", "l", "a", "r", "e", ".", "c", "o", "m", "/", "t", "u", "r", "n", "s", "t", "i", "l", "e", "/", "v", "0", "/", "b", "/">>, <<"h", "t", "t", "p", "s", ":", "/", "/", "x", ".", "t", "e", "s", "t", "/", "f", "r", "a", "m", "e">>},
     id : {<<>>, <<"c", "f", "-", "c", "h", "l", "-", "w", "i", "d", "g", "e", "t", "-", "1">>},
     name : {<<>>, <<"c", "f", "-", "t", "u", "r", "n", "s", "t", "i", "l", "e", "-", "r", "e", "s", "p", "o", "n", "s", "e">>},
     type : {<<>>, <<"c", "h", "e", "c", "k", "b", "o", "x">>}]

\* what determine_widget_state returns
DeterminedStates == {"error", "loading", "success", "normal", "unknown"}

\* the first characters of a selector name the tag it matches
SelectsTag(selector, tag) == StartsWith(selector, tag)

\* An element the selector can match with these attributes: an attribute
\* selector names an attribute the element has, a tag selector its tag, and
\* only an input has a type.
Matches(selector, attributes, is_iframe) ==
    /\ SelectsTag(selector, <<"i", "f", "r", "a", "m", "e">>) => is_iframe
    /\ (\E tag \in {<<"d", "i", "v">>, <<"i", "n", "p", "u", "t">>, <<"l", "a", "b", "e", "l">>,
                    <<"b", "u", "t", "t", "o", "n">>} : SelectsTag(selector, tag)) => ~is_iframe
    /\ Contains(selector, <<"[", "d", "a", "t", "a", "-", "s", "i", "t", "e", "k", "e", "y", "]">>)
           => attributes.data_sitekey # <<>>
    /\ Contains(selector, <<"[", "d", "a", "t", "a", "-", "t", "h", "e", "m", "e", "]">>)
           => attributes.data_theme # <<>>
    /\ Contains(selector, <<"[", "d", "a", "t", "a", "-", "c", "a", "l", "l", "b", "a", "c", "k", "]">>)
           => attributes.data_callback # <<>>
    /\ Contains(selector, <<"[", "i", "d", "*", "=">>) => attributes.id # <<>>
    /\ Contains(selector, <<"[", "n", "a", "m", "e", "*", "=">>) => attributes.name # <<>>
    /\ Contains(selector, <<"[", "s", "r", "c", "*", "=">>) => attributes.src = <<"h", "t", "t", "p", "s", ":", "/", "/", "c", "h", "a", "l", "l", "e", "n", "g", "e", "s", ".", "c", "l", "o", "u", "d", "f", "l", "a", "r", "e", ".", "c", "o", "m", "/", "t", "u", "r", "n", "s", "t", "i", "l", "e", "/", "v", "0", "/", "b", "/">>
    /\ attributes.type # <<>> <=> SelectsTag(selector, <<"i", "n", "p", "u", "t">>)
    /\ attributes.src # <<>> => is_iframe

\* the calls analyze_widget_element makes
ConfidenceCalls ==
    {c \in [selector : {turnstile_selectors[i] : i \in DOMAIN turnstile_selectors},
            attributes : AttributeValues, is_iframe : BOOLEAN, state : DeterminedStates] :
        Matches(c.selector, c.attributes, c.is_iframe)}

\* min(confidence, 1.0), in tenths
Min(a, b) == IF a < b THEN a ELSE b

\* calculate_confidence(selector, attributes, is_iframe, state), in tenths
CalculateConfidence(selector, attributes, is_iframe, state) ==
    LET sitekey_part == IF attributes.data_sitekey # <<>> THEN 4 ELSE 0
        selector_part ==
            IF Contains(selector, <<"c", "f", "-", "t", "u", "r", "n", "s", "t", "i", "l", "e">>) \/ Contains(selector, <<"t", "u", "r", "n", "s", "t", "i", "l", "e">>)
            THEN 3 ELSE 0
        src == LowerStr(attributes.src)
        iframe_part ==
            IF is_iframe /\ attributes.src # <<>>
               /\ (Contains(src, <<"t", "u", "r", "n", "s", "t", "i", "l", "e">>) \/ Contains(src, <<"c", "h", "a", "l", "l", "e", "n", "g", "e", "s", ".", "c", "l", "o", "u", "d", "f", "l", "a", "r", "e">>))
            THEN 3 ELSE 0
        checkbox_part ==
            IF attributes.type = <<"c", "h", "e", "c", "k", "b", "o", "x">>
            THEN IF Contains(attributes.id, <<"c", "f", "-", "c", "h", "l">>) \/ Contains(attributes.name, <<"t", "u", "r", "n", "s", "t", "i", "l", "e">>)
                 THEN 4 ELSE 2
            ELSE 0
        theme_part ==
            IF attributes.data_theme # <<>> \/ attributes.data_callback # <<>> THEN 2 ELSE 0
        cloudflare_part == IF Contains(LowerStr(selector), <<"c", "l", "o", "u", "d", "f", "l", "a", "r", "e">>) THEN 2 ELSE 0
        text_part == IF Contains(selector, <<"t", "e", "x", "t", "-", "b", "a", "s", "e", "d">>) THEN 2 ELSE 0
        state_part == CASE state = "error" -> 1
                        [] state = "success" -> -3
                        [] state = "loading" -> -1
                        [] OTHER -> 0
        challenge_part ==
            IF Contains(LowerStr(selector), <<"c", "h", "a", "l", "l", "e", "n", "g", "e">>)
               \/ Contains(LowerStr(selector), <<"v", "e", "r", "i", "f", "i", "c", "a", "t", "i", "o", "n">>)
            THEN 1 ELSE 0
    IN  Min(sitekey_part + selector_part + iframe_part + checkbox_part + theme_part
                + cloudflare_part + text_part + state_part + challenge_part, 10)

ConfidenceCall(c) ==
    [fn |-> "calculate_confidence", selector |-> c.selector, attributes |-> c.attributes,
     is_iframe |-> c.is_iframe, state |-> c.state, returned |-> FALSE, confidence |-> 0]

\* one call of calculate_confidence on the input
Calculate ==
    /\ detector.fn = "calculate_confidence"
    /\ ~detector.returned
    /\ detector' = [detector EXCEPT
                       !.returned = TRUE,
                       !.confidence = CalculateConfidence(detector.selector, detector.attributes,
                                                          detector.is_iframe, detector.state)]
    /\ UNCHANGED <<serverVars, validatorVars, solving, tester, poll, post, cleanup>>

\* confidences of the records handed to prioritize_widgets, in tenths
PriorityConfidences == {4, 7, 8, 10}

\* the lists deduplicate_widgets hands to prioritize_widgets: id is the place
\* of the record in the list
PriorityLists ==
    UNION {{ws \in [1..len -> [id : 1..len, state : WidgetStates, has_checkbox : BOOLEAN,
                               confidence : PriorityConfidences]] :
               \A i \in 1..len : ws[i].id = i} : len \in 0..MaxWidgets}

PrioritizeCall(widgets) ==
    [fn |-> "prioritize_widgets", widgets |-> widgets, returned |-> FALSE, sorted |-> <<>>]

\* one call of prioritize_widgets on the input
Prioritize ==
    /\ detector.fn = "prioritize_widgets"
    /\ ~detector.returned
    /\ detector' = [detector EXCEPT !.returned = TRUE,
                                     !.sorted = PrioritizeWidgets(detector.widgets)]
    /\ UNCHANGED <<serverVars, validatorVars, solving, tester, poll, post, cleanup>>

\* ---------------- server: cleanup_old_sessions against the server thread

\* The main thread runs cleanup_old_sessions while the server thread runs the
\* handlers, on the one dict TurnstileRequestHandler.sessions, without a lock.
\* A dict iterator remembers the size of the dict it was made for and raises
\* RuntimeError ("dictionary changed size during iteration") from the next
\* step that finds another size.

\* pc: "idle", "iterating" (in the for loop over sessions.items()),
\* "deleting" (in the loop over to_remove), "returned", "raised" (an exception
\* has left cleanup_old_sessions).  used: the size of the dict when the
\* iterator was made; pos: the entries the iterator has passed; before: the
\* table when the call began; calls: the uuid4 calls made by then.
CleanupIdle ==
    [pc |-> "idle", max_age_seconds |-> -1, current_time |-> 0, used |-> 0, pos |-> 0,
     to_remove |-> <<>>, before |-> << >>, calls |-> 0]

\* the keys of the table in insertion order (the n-th session stored has the
\* n-th uuid)
RECURSIVE KeysInOrder(_, _)
KeysInOrder(table, n) ==
    IF n > Len(UuidPool) THEN <<>>
    ELSE (IF Uuid4(n) \in DOMAIN table THEN <<Uuid4(n)>> ELSE <<>>) \o KeysInOrder(table, n + 1)

\* cleanup_old_sessions(max_age_seconds) up to the for loop
CleanupBegin(max_age_seconds) ==
    /\ cleanup.pc \in {"idle", "returned", "raised"}
    /\ cleanup' = [CleanupIdle EXCEPT
                      !.pc = "iterating",
                      !.max_age_seconds = max_age_seconds,
                      !.current_time = now,
                      !.used = Cardinality(DOMAIN sessions),
                      !.before = sessions,
                      !.calls = uuidCalls]
    /\ UNCHANGED <<serverVars, validatorVars, solving, tester, poll, post, detector>>

\* one step of the for loop: the iterator's next, then the body
CleanupIterate ==
    /\ cleanup.pc = "iterating"
    /\ LET keys == KeysInOrder(sessions, 1)
       IN  cleanup' =
               IF Cardinality(DOMAIN sessions) # cleanup.used
               THEN [cleanup EXCEPT !.pc = "raised"]
               ELSE IF cleanup.pos >= Len(keys)
               THEN [cleanup EXCEPT !.pc = "deleting"]
               ELSE LET session_id == keys[cleanup.pos + 1]
                        old == cleanup.current_time - sessions[session_id].created_at
                                   > cleanup.max_age_seconds
                    IN  [cleanup EXCEPT
                            !.pos = cleanup.pos + 1,
                            !.to_remove = IF old THEN Append(cleanup.to_remove, session_id)
                                          ELSE cleanup.to_remove]
    /\ UNCHANGED <<serverVars, validatorVars, solving, tester, poll, post, detector>>

\* one step of the loop over to_remove, and the return after it
CleanupDelete ==
    /\ cleanup.pc = "deleting"
    /\ IF cleanup.to_remove = <<>>
       THEN /\ cleanup' = [cleanup EXCEPT !.pc = "returned"]
            /\ UNCHANGED sessions
       ELSE /\ sessions' = [s \in DOMAIN sessions \ {Head(cleanup.to_remove)} |-> sessions[s]]
            /\ cleanup' = [cleanup EXCEPT !.to_remove = Tail(cleanup.to_remove)]
    /\ UNCHANGED <<uuidCalls, now, request, response, validatorVars, solving, tester, poll,
                   post, detector>>

\* ------------------------------------------------------ specifications

ServerIdle ==
    /\ sessions = << >>
    /\ uuidCalls = 0
    /\ now = 0
    /\ request = NoRequest
    /\ response = NoResponse

\* the server after start(): an empty session table
ClientsIdle ==
    /\ solving = SolvingIdle
    /\ tester = TesterIdle([id \in WidgetIds |-> "absent"])
    /\ poll = PollIdle
    /\ post = PostIdle
    /\ detector = DetectorIdle
    /\ cleanup = CleanupIdle

Init ==
    /\ ServerIdle
    /\ sitekey = <<>>
    /\ result = NoResult
    /\ ClientsIdle

\* Requests in any order.  The handlers read the clock only to stamp
\* created_at and completed_at, and here it stands still.
Next ==
    \/ \E q \in SolveQueries : ServeSolvePage(q) /\ UNCHANGED clientVars
    \/ \E b \in TokenBodies : HandleTokenSubmission(b) /\ UNCHANGED clientVars

Spec == Init /\ [][Next]_vars

\* Requests, the passing of time and cleanup calls in any order, over fewer
\* request inputs.
LifecycleQueries ==
    {Query(KeyExample, UrlGood, <<>>, <<>>), Query(DemoKey1, UrlGood, <<>>, <<>>)}
LifecycleBodies ==
    {[body |-> "object", sessionId |-> s, token |-> t] :
        s \in SessionIds, t \in {"tok-A", PyNone}}

NextLifecycle ==
    \/ \E q \in LifecycleQueries : ServeSolvePage(q) /\ UNCHANGED clientVars
    \/ \E b \in LifecycleBodies : HandleTokenSubmission(b) /\ UNCHANGED clientVars
    \/ \E a \in MaxAges : CleanupOldSessions(a) /\ UNCHANGED clientVars
    \/ Tick /\ UNCHANGED clientVars

SpecLifecycle == Init /\ [][NextLifecycle]_vars

\* validate_sitekey called once on each input
InitValidator ==
    /\ ServerIdle
    /\ sitekey \in SitekeyInputs
    /\ result = NoResult
    /\ ClientsIdle

NextValidator == Validate /\ UNCHANGED clientVars

SpecValidator == InitValidator /\ [][NextValidator]_vars

\* One run of attempt_capsolver_turnstile_solve and of main after it, over
\* every list of elements and every answer of the collaborators.
NextSolving ==
    \/ \E es \in ElementLists : ExtractTurnstileData(es)
    \/ \E o \in SolveOutcomes : SolveElement(o)
    \/ \E clicked \in BOOLEAN : MainAfterSolve(clicked)

SpecSolving == Init /\ [][NextSolving]_vars

\* One run of test_url on every page.
InitTester ==
    /\ ServerIdle
    /\ sitekey = <<>>
    /\ result = NoResult
    /\ solving = SolvingIdle
    /\ \E page \in Pages : tester = TesterIdle(page)
    /\ poll = PollIdle
    /\ post = PostIdle
    /\ detector = DetectorIdle
    /\ cleanup = CleanupIdle

NextTester ==
    \/ DetectPass
    \/ ProcessWidget
    \/ EndPass
    \/ FinalVerification

SpecTester == InitTester /\ [][NextTester]_vars

\* Calls of attempt_server_turnstile_solve one after the other on the main
\* thread, each a /solve request and a poll, interleaved step by step with
\* the POST /token requests the server thread handles.
NextSolver ==
    \/ \E q \in SolverQueries : SolverGoto(q)
    \/ PollCopy
    \/ PollReadStatus
    \/ PollTestToken
    \/ PollTakeToken
    \/ \E timed_out \in BOOLEAN : PollTimeoutCheck(timed_out)
    \/ \E b \in SolverBodies : PostBegin(b)
    \/ PostWrite
    \/ PostRespond

SpecSolver == Init /\ [][NextSolver]_vars

\* the state with nothing under way but a call of a detector method
DetectorCalled(call) ==
    /\ ServerIdle
    /\ sitekey = <<>>
    /\ result = NoResult
    /\ solving = SolvingIdle
    /\ tester = TesterIdle([id \in WidgetIds |-> "absent"])
    /\ poll = PollIdle
    /\ post = PostIdle
    /\ cleanup = CleanupIdle
    /\ detector = call

\* deduplicate_widgets called once on each list of records
InitDedup == \E widgets \in DedupLists : DetectorCalled(DedupCall(widgets))

NextDedup == Deduplicate

SpecDedup == InitDedup /\ [][NextDedup]_vars

\* calculate_confidence called once on each selector, attributes, iframe
\* flag and state
InitConfidence == \E c \in ConfidenceCalls : DetectorCalled(ConfidenceCall(c))

NextConfidence == Calculate

SpecConfidence == InitConfidence /\ [][NextConfidence]_vars

\* prioritize_widgets called once on each list of records
InitPrioritize == \E widgets \in PriorityLists : DetectorCalled(PrioritizeCall(widgets))

NextPrioritize == Prioritize

SpecPrioritize == InitPrioritize /\ [][NextPrioritize]_vars

\* Calls of cleanup_old_sessions on the main thread, interleaved step by step
\* with the /solve and /token requests the server thread handles and with
\* the passing of time.
CleanupQueries == {Query(KeyExample, UrlGood, <<>>, <<>>)}
CleanupBodies == [body : {"object"}, sessionId : SessionIds, token : {"tok-A"}]

NextCleanup ==
    \/ \E a \in MaxAges : CleanupBegin(a)
    \/ CleanupIterate
    \/ CleanupDelete
    \/ \E q \in CleanupQueries : ServeSolvePage(q) /\ UNCHANGED clientVars
    \/ \E b \in CleanupBodies : PostBegin(b)
    \/ PostWrite
    \/ PostRespond
    \/ Tick /\ UNCHANGED clientVars

SpecCleanup == Init /\ [][NextCleanup]_vars

\* ------------------------------------------------------- claims: server

\* the sitekey passes the three sitekey validations of GET /solve
PassesSitekeyValidation(k) ==
    /\ k # <<>>
    /\ k \notin {DemoKey1, DemoKey2, DemoKey3, Placeholder4A, PlaceholderYourSiteKey}
    /\ Len(k) >= 20
    /\ SubSeq(k, 1, 2) \in {<<"0", "x">>, <<"1", "x">>}

C2_SolveCreatesSession ==
    [][(request'.kind = "solve" /\ PassesSitekeyValidation(request'.sitekey)
           /\ request'.url # <<>>) =>
          /\ response'.status = 200
          /\ response'.type = "html"
          /\ response'.data_sitekey = request'.sitekey
          /\ \E sid \in DOMAIN sessions' \ DOMAIN sessions :
                 /\ DOMAIN sessions' = DOMAIN sessions \cup {sid}
                 /\ response'.session_id = sid
                 /\ sessions'[sid].status = "waiting"
                 /\ sessions'[sid].token = PyNone
                 /\ sessions'[sid].sitekey = request'.sitekey
                 /\ sessions'[sid].url = request'.url
                 /\ sessions'[sid].action = request'.action
                 /\ sessions'[sid].cdata = request'.cdata
          /\ \A s \in DOMAIN sessions : sessions'[s] = sessions[s]
      ]_vars

\* a 400 answer with a JSON error body carrying this message
Is400(resp, message) ==
    resp.status = 400 /\ resp.type = "json" /\ resp.error = message

\* C3: GET /solve answers 400 with a JSON error body, and no solving page, in
\* each of these cases, the first failing check deciding the error: the
\* sitekey is missing or empty; it is a demo or placeholder key; it does not
\* start with '0x' or '1x' or is shorter than 20 characters; the url is
\* missing or empty.
C3_SolveRejections ==
    request.kind = "solve" =>
        LET k == request.sitekey
            listed == k \in {DemoKey1, DemoKey2, DemoKey3, Placeholder4A, PlaceholderYourSiteKey}
            malformed == Len(k) < 20 \/ SubSeq(k, 1, 2) \notin {<<"0", "x">>, <<"1", "x">>}
        IN  /\ k = <<>> => Is400(response, "Missing required parameter: sitekey")
            /\ (k # <<>> /\ listed) =>
                   Is400(response, "Invalid sitekey - Demo/Test key not supported")
            /\ (k # <<>> /\ ~listed /\ malformed) => Is400(response, "Invalid sitekey format")
            /\ (k # <<>> /\ ~listed /\ ~malformed /\ request.url = <<>>) =>
                   Is400(response, "Missing URL parameter")

\* C3 witness: a request whose sitekey is too short and whose url is missing
\* was answered with the sitekey format error
C3_Witness ==
    /\ request.kind = "solve"
    /\ request.sitekey = Key19
    /\ request.url = <<>>
    /\ Is400(response, "Invalid sitekey format")

\* C4: a session's token is set at most once: once a POST /token has stored a
\* non-null token for a session, no later POST /token for that session
\* changes the stored token.
C4_TokenSetOnce ==
    [][\A s \in DOMAIN sessions \cap DOMAIN sessions' :
          sessions[s].token # PyNone => sessions'[s].token = sessions[s].token
      ]_vars

\* C5: a session is created with status 'waiting', the only status change is
\* waiting -> completed, and a session whose status is 'completed' keeps it
\* for as long as the session exists.
C5_StatusMonotonic ==
    [][/\ \A s \in DOMAIN sessions' \ DOMAIN sessions : sessions'[s].status = "waiting"
       /\ \A s \in DOMAIN sessions \cap DOMAIN sessions' :
              /\ sessions'[s].status \in {"waiting", "completed"}
              /\ sessions[s].status = "completed" => sessions'[s].status = "completed"
      ]_vars

\* C5 witness: a session that was completed at an earlier time is still
\* there, and still completed, after a cleanup call
C5_Witness ==
    /\ request.kind = "cleanup"
    /\ \E s \in DOMAIN sessions :
           /\ sessions[s].status = "completed"
           /\ sessions[s].completed_at < now

\* ---------------------------------------------------- claims: validator

\* the number of different characters of s, letters counted without case
DistinctChars(s) == Cardinality({Upper(s[i]) : i \in 1..Len(s)})

\* C6: validate_sitekey returns a classification and never raises, for every
\* string; the empty string is classified is_fake with type invalid_format.
C6_NeverRaises ==
    /\ result.state # "raised"
    /\ (sitekey = <<>> /\ result.state = "returned") =>
           (result.is_fake /\ result.type = "invalid_format")

\* C7: every 32-character string made of '1x' and 30 hexadecimal characters
\* with high character diversity (at least 12 different digits here), that
\* matches none of the demo, placeholder or regex rules, is returned
\* is_valid with confidence at least 50.
C7_DiverseKeysValid ==
    (/\ result.state # "none"
     /\ Len(sitekey) = 32
     /\ SubSeq(sitekey, 1, 2) = <<"1", "x">>
     /\ AllIn(SubSeq(sitekey, 3, 32), HexChars)
     /\ DistinctChars(SubSeq(sitekey, 3, 32)) >= 12
     /\ sitekey \notin DEMO_SITEKEYS
     /\ PlaceholderIndex(sitekey) = 0
     /\ RegexIndex(sitekey) = 0)
    => (result.state = "returned" /\ result.is_valid /\ result.confidence >= 50)

\* C8: each of the three demo keys is returned is_demo with confidence 100,
\* also where the placeholder, regex or format checks would reject the same
\* string.
C8_DemoKeys ==
    (result.state # "none" /\ sitekey \in {DemoKey1, DemoKey2, DemoKey3}) =>
        /\ result.state = "returned"
        /\ result.is_demo
        /\ result.confidence = 100
        /\ ~result.is_fake
        /\ ~result.is_valid

\* C8 witness: the first demo key, which the first regex pattern matches too,
\* was returned as a demo key
C8_Witness ==
    /\ sitekey = DemoKey1
    /\ RegexMatches(1, sitekey)
    /\ result.state = "returned"
    /\ result.is_demo

\* '0x' or '1x', then 20 'F' or 'f': the pattern ^[01]x[Ff]{20,} without an
\* end anchor
StartsWithTwentyF(k) ==
    /\ Len(k) >= 22
    /\ k[1] \in {"0", "1"}
    /\ k[2] = "x"
    /\ AllIn(SubSeq(k, 3, 22), {"F", "f"})

\* C9 as stated: every string matching ^[01]x[Ff]{20,}, whatever follows the
\* 'F' characters, is returned is_fake.
C9_UnanchoredAllF ==
    (result.state # "none" /\ StartsWithTwentyF(sitekey)) =>
        (result.state = "returned" /\ result.is_fake)

\* C9 amended: every string that matches ^[01]x[Ff]{20,} up to its end ('0x'
\* or '1x', then 20 or more 'F'/'f' characters and nothing else) is returned
\* is_fake.
C9_AnchoredAllF ==
    (/\ result.state # "none"
     /\ StartsWithTwentyF(sitekey)
     /\ AllIn(SubSeq(sitekey, 3, Len(sitekey)), {"F", "f"}))
    => (result.state = "returned" /\ result.is_fake)

\* C9 witness: '1x' and exactly 20 'F' was returned fake by the all-F pattern
C9_Witness ==
    /\ sitekey = <<"1", "x">> \o Rep("F", 20)
    /\ result.state = "returned"
    /\ result.is_fake
    /\ result.reason = "Contains all F characters (likely placeholder)"

\* C10: in every result validate_sitekey returns, exactly one of is_demo,
\* is_fake and is_valid is true, and confidence is an integer from 0 to 100.
C10_TriState ==
    result.state = "returned" =>
        /\ Cardinality({f \in {"is_demo", "is_fake", "is_valid"} : result[f]}) = 1
        /\ result.confidence \in 0..100

\* C10 witness: a key of valid format and unusual length was returned valid,
\* and neither demo nor fake
C10_Witness ==
    /\ sitekey = KeyExample
    /\ result.state = "returned"
    /\ result.is_valid
    /\ result.type = "unusual_format"

\* --------------------------------------------- claims: solving strategies

\* the place of a strategy in the order click, local server, third-party API
StrategyRank(strategy) ==
    CASE strategy = "click" -> 1
      [] strategy = "server" -> 2
      [] strategy = "api" -> 3

\* C11: a strategy is attempted on a widget only after every strategy that
\* comes before it in the order click, local server, API has been attempted
\* (on that widget, or page-wide) and has not succeeded
C11_StrategyOrder ==
    \A p \in DOMAIN solving.log :
        \A r \in 1..(StrategyRank(solving.log[p].strategy) - 1) :
            \E p0 \in 1..(p - 1) :
                /\ StrategyRank(solving.log[p0].strategy) = r
                /\ solving.log[p0].element \in {solving.log[p].element, 0}
                /\ ~solving.log[p0].succeeded

\* C12: whenever the API strategy has not succeeded on a visible widget with
\* a sitekey, the local-server strategy is attempted on that widget afterwards
C12_ServerAfterFailedApi ==
    \A p \in DOMAIN solving.log :
        (solving.log[p].strategy = "api" /\ ~solving.log[p].succeeded)
        => \E p1 \in DOMAIN solving.log :
               /\ p1 > p
               /\ solving.log[p1].strategy = "server"
               /\ solving.log[p1].element = solving.log[p].element

\* C18: no API submission and no local-server round trip is made with a
\* sitekey that validate_sitekey returns as is_demo or is_fake
C18_OnlyValidatedSitekeys ==
    \A p \in DOMAIN solving.log :
        solving.log[p].strategy \in {"api", "server"}
        => LET r == ValidateSitekey(solving.log[p].sitekey)
           IN  ~(r.state = "returned" /\ (r.is_demo \/ r.is_fake))

\* ------------------------------------------------------ claims: cf_test

\* C13: when the first detection of handle_all_turnstile_widgets finds no
\* widget, it returns success after that one detection, with no click, no
\* refresh and no reload issued
C13_EmptyDetectionResolved ==
    (tester.pc = "handled" /\ tester.first_empty)
    => /\ tester.success
       /\ tester.detections = 1
       /\ ~tester.acted
       /\ tester.clicks = {}

\* C13 witness: handle_all_turnstile_widgets has returned from a page without
\* widgets
C13_Witness ==
    /\ tester.pc = "handled"
    /\ tester.first_empty
    /\ tester.detections = 1
    /\ tester.success

\* C14: test_url returns True exactly when no widget in a state other than
\* success remains on the page
C14_ResolvedIffAllSuccess ==
    tester.pc = "done"
    => (tester.result <=>
            \A id \in WidgetIds : tester.page[id] \in {"absent", "success"})

\* C15: no click of any kind is issued on a widget record whose state is
\* success
C15_NoClickOnSuccess ==
    \A c \in tester.clicks : c.state # "success"

\* C15 witness: in a pass that detected a widget in state success, a click
\* was issued on another widget
C15_Witness ==
    /\ tester.clicks # {}
    /\ tester.seen_success

\* --------------------------------------------- claims: solver and server

\* C16: a poll that has read status completed from a session then reads a
\* token some POST has stored there, and the poll does not raise
C16_PollSeesStoredToken ==
    /\ ~poll.raised
    /\ poll.pc \in {"token", "take"} =>
           LET sid == poll.snapshot[poll.idx]
           IN  <<sid, sessions[sid].token>> \in post.stored

\* C17: a cleanup call removes exactly the sessions older than max_age and
\* leaves the others as they were; no other step removes a session
C17_CleanupRemovesExactlyOld ==
    [][
        /\ request'.kind = "cleanup" =>
               /\ DOMAIN sessions' =
                      {s \in DOMAIN sessions :
                          now - sessions[s].created_at <= request'.max_age_seconds}
               /\ \A s \in DOMAIN sessions' : sessions'[s] = sessions[s]
        /\ request'.kind # "cleanup" => DOMAIN sessions \subseteq DOMAIN sessions'
    ]_vars

\* C17 witness: one cleanup call has removed a session and kept another
C17_Witness ==
    /\ request.kind = "cleanup"
    /\ Cardinality(DOMAIN sessions) = 1
    /\ uuidCalls = 2
    /\ \E s \in DOMAIN sessions : sessions[s].created_at = now

\* C19: a /solve request answered with a status other than 200 leaves the
\* session table as it was, and one answered 200 adds a session
C19_SolveAllOrNothing ==
    [][
        request'.kind = "solve" =>
            IF response'.status = 200
            THEN DOMAIN sessions' # DOMAIN sessions
            ELSE sessions' = sessions
    ]_vars

\* C20: a token returned by attempt_server_turnstile_solve comes from the
\* session that call's own /solve request created
C20_TokenOfOwnSession ==
    (poll.pc = "returned" /\ poll.returned # PyNone) => poll.from = poll.own

\* C21: in every state of the table a session has status 'completed' exactly
\* when its token is not null, and a POST /token answered with an error
\* status leaves the session it addresses as it was
C21_CompletedIffToken ==
    [][
        /\ \A s \in DOMAIN sessions' :
               sessions'[s].status = "completed" <=> sessions'[s].token # PyNone
        /\ (/\ request'.kind = "token"
            /\ response'.status >= 400
            /\ request'.sessionId \in DOMAIN sessions)
           => sessions'[request'.sessionId] = sessions[request'.sessionId]
    ]_vars

\* C22: when attempt_capsolver_turnstile_solve has returned from a page with
\* elements, every visible element that has a sitekey has been attempted,
\* whatever elements without a sitekey or invisible ones come before it, and
\* the function has returned True exactly when an attempt injected a token
C22_SkipsWithoutStopping ==
    (solving.pc = "returned" /\ solving.elements # <<>>)
    => /\ \A i \in DOMAIN solving.elements :
              LET e == solving.elements[i]
              IN  ("visible" \in e.keys /\ e.visible /\ "sitekey" \in e.keys
                      /\ e.sitekey # <<>>)
                  => \E p \in DOMAIN solving.log : solving.log[p].element = i
       /\ solving.success <=> \E p \in DOMAIN solving.log : solving.log[p].succeeded

\* C23: when handle_all_turnstile_widgets has returned failure,
\* exactly 5 detection passes were made, the waits between them were based on
\* 2, 4, 6 and 8 seconds in that order, and the page was reloaded before the
\* 4th and before the 5th attempt
C23_FiveAttemptsTwoReloads ==
    (tester.pc = "handled" /\ ~tester.success)
    => /\ tester.detections = 5
       /\ tester.waits = <<2, 4, 6, 8>>
       /\ tester.reloads = {4, 5}

\* ------------------------------------------- claims: the detector's methods

\* C24: the list deduplicate_widgets returns holds no two records whose
\* bounding boxes differ by less than 10 pixels in x and in y
C24_NoTwoClose ==
    (detector.fn = "deduplicate_widgets" /\ detector.returned)
    => \A i, j \in DOMAIN detector.unique :
           i # j => ~Close(detector.unique[i], detector.unique[j])

\* C25: the confidence calculate_confidence returns lies in [0, 1] (0 to 10
\* tenths) for every selector, attributes, iframe flag and widget state
C25_ConfidenceInUnitInterval ==
    (detector.fn = "calculate_confidence" /\ detector.returned)
    => (detector.confidence >= 0 /\ detector.confidence <= 10)

\* C26: in the list prioritize_widgets returns, every widget in state error
\* comes before every widget in state normal
C26_ErrorBeforeNormal ==
    (detector.fn = "prioritize_widgets" /\ detector.returned)
    => \A i, j \in DOMAIN detector.sorted :
           (detector.sorted[i].state = "error" /\ detector.sorted[j].state = "normal") => i < j

\* ------------------------------------------- claims: validator, continued

\* the sitekey contains, compared without case, a keyword of INVALID_PATTERNS
ContainsPlaceholderKeyword(k) ==
    \E i \in DOMAIN INVALID_PATTERNS :
        Contains(UpperStr(k), UpperStr(INVALID_PATTERNS[i].text))

\* C27: every sitekey that is no demo key and contains, compared without
\* case, a keyword of INVALID_PATTERNS is returned is_fake with confidence 95
C27_PlaceholderKeywordsFake ==
    (/\ result.state # "none"
     /\ sitekey \notin DEMO_SITEKEYS
     /\ ContainsPlaceholderKeyword(sitekey))
    => (result.state = "returned" /\ result.is_fake /\ result.confidence = 95)

\* the sitekey with its second character, an 'X', in lower case
LowerPrefix(k) == <<k[1], "x">> \o SubSeq(k, 3, Len(k))

\* the call did not end in the rejection of step 4, the format check
PassesFormatCheck(r) == ~(r.state = "returned" /\ r.type = "invalid_format")

\* C28: a sitekey written with the prefix '0X' or '1X' passes the format
\* check of validate_sitekey exactly when the same sitekey written with the
\* prefix in lower case passes it
C28_PrefixCaseInsensitive ==
    (/\ result.state # "none"
     /\ Len(sitekey) >= 2
     /\ sitekey[1] \in {"0", "1"}
     /\ sitekey[2] = "X")
    => (PassesFormatCheck(result) <=> PassesFormatCheck(ValidateSitekey(LowerPrefix(sitekey))))

\* C29: attempt_server_turnstile_solve returns a token when its poll has
\* observed a completed session with a non-empty token, and None otherwise
\* (after the bounded wait)
C29_TokenIffObserved ==
    poll.pc = "returned"
    => /\ poll.returned \in StringTokens \cup {PyNone}
       /\ poll.observed <=> poll.returned # PyNone

\* ------------------------------------------- claims: cleanup, concurrent

\* C30: cleanup_old_sessions run while the server thread handles /solve and
\* /token requests ends without an exception; the sessions it has removed
\* were older than max_age when it began; and every session created after it
\* began is in the table when it returns
C30_CleanupSafeUnderRequests ==
    /\ cleanup.pc # "raised"
    /\ cleanup.pc = "returned" =>
           /\ \A s \in DOMAIN cleanup.before \ DOMAIN sessions :
                  cleanup.current_time - cleanup.before[s].created_at > cleanup.max_age_seconds
           /\ \A n \in (cleanup.calls + 1)..uuidCalls : Uuid4(n) \in DOMAIN sessions

====
